---- MODULE Spec2Model ----
(***************************************************************************)
(* Model of ThinkCLI/.codex/run_usecases.py: the step executor run_step,   *)
(* the target process it drives, the helpers built on it, the scenario     *)
(* script of main and the run-level entry point.                           *)
(***************************************************************************)
EXTENDS Integers, Sequences, FiniteSets, TLC

VARIABLES
    env,       \* what the run finds around it: environment variables, binary, model
               \* dirs, and what the best-effort store reset could not remove
    now,       \* the wall clock, in seconds
    files,     \* the log directory: path -> content
    step,      \* the activation of run_step in progress (or the last one)
    result,    \* the tuple the last run_step returned
    exc,       \* the exception propagating out of main, if any
    run,       \* the interpreter process: status, exit code, stdout, stderr
    nInvoked,  \* how many target processes have been spawned so far
    calls,     \* the run_step invocations so far, in order: name, argv, log prefix
    disk,      \* the files under ~/Library/Application Support: path -> kind
    fsops,     \* what main did on the file system outside run_step, in order
    pc,        \* position of the caller that drives run_step
    locals     \* the caller's local variables (ids of what it created)

vars == <<env, now, files, step, result, exc, run, nInvoked, calls, disk, fsops, pc, locals>>

---------------------------------------------------------------------------
\* Optional[T]: None is the empty set, a present value v is {v}.
None == {}
Some(v) == {v}
IsNone(x) == x = {}
Get(x) == CHOOSE v \in x : TRUE

Min(a, b) == IF a <= b THEN a ELSE b

---------------------------------------------------------------------------
\* Program constants.
DefaultChatTimeoutS == 1800
DiagLimit == 5000

\* THINK_UC_CHAT_TIMEOUT_S as the environment may hold it.
EnvChatTimeouts == {None, Some(0), Some(60), Some(-1)}

\* CHAT_TIMEOUT_S = int(os.environ.get("THINK_UC_CHAT_TIMEOUT_S", "1800"))
ChatTimeoutOf(envValue) ==
    IF IsNone(envValue) THEN DefaultChatTimeoutS ELSE Get(envValue)

CHAT_TIMEOUT_S == ChatTimeoutOf(env.chat_timeout)

---------------------------------------------------------------------------
\* Texts the target process prints: a body (what the readers of the text make of it)
\* and a length in characters.
TextEmpty == [body |-> "empty", len |-> 0]
TextDictId == [body |-> "dict_id", len |-> 40]
TextDict == [body |-> "dict", len |-> 7000]
TextNull == [body |-> "null", len |-> 4]
TextNoise == [body |-> "noise", len |-> 6000]
TextAlready == [body |-> "Already Downloaded", len |-> 18]

\* {"message": "Created skill <uuid>"} and {"message": "Created skill"}
TextMsgUuid == [body |-> "dict_msg_uuid", len |-> 60]
TextMsgPlain == [body |-> "dict_msg", len |-> 28]
\* Listings of skills or personalities, told apart by what they hold for the name
\* that was just asked for: two entries of that name after another one; no entry of
\* that name; a first entry of that name with a null id; one with an empty id.
TextListHit == [body |-> "list_hit", len |-> 150]
TextListMiss == [body |-> "list_miss", len |-> 50]
TextListNoId == [body |-> "list_noid", len |-> 100]
TextListEmptyId == [body |-> "list_emptyid", len |-> 50]
\* Listings of schedules: the one this run created alone, before or after one of
\* the same title left by an earlier run, and an empty listing.
TextSchedsOwn == [body |-> "scheds_own", len |-> 80]
TextSchedsStaleFirst == [body |-> "scheds_stale_first", len |-> 160]
TextSchedsOwnFirst == [body |-> "scheds_own_first", len |-> 160]
TextSchedsNone == [body |-> "scheds_none", len |-> 2]
\* The schedule this run created listed with a null id, and with an empty id.
TextSchedsNoId == [body |-> "scheds_noid", len |-> 70]
TextSchedsEmptyId == [body |-> "scheds_emptyid", len |-> 72]

\* Output of a chat send in json-lines format: the two objects with a blank line
\* between them; an object after a line of progress noise; noise only.
TextJsonlTwo == [body |-> "jsonl_two", len |-> 17]
TextJsonlMixed == [body |-> "jsonl_mixed", len |-> 21]
TextJsonlNoise == [body |-> "jsonl_noise", len |-> 13]

StdoutTexts == {TextDictId, TextDict, TextNull, TextNoise}
StderrTexts == {TextEmpty, TextNoise}
ExitCodes == {0, 2}

\* json.loads(text): the parsed value, or a raised exception.
JsonLoads(text) ==
    CASE text.body = "dict_id" -> [ok |-> TRUE, value |-> "dict_id"]
      [] text.body = "dict" -> [ok |-> TRUE, value |-> "dict"]
      [] text.body = "null" -> [ok |-> TRUE, value |-> "None"]
      [] text.body \in {"dict_msg_uuid", "dict_msg", "list_hit", "list_miss", "list_noid",
                        "list_emptyid", "scheds_own", "scheds_stale_first",
                        "scheds_own_first", "scheds_none", "scheds_noid",
                        "scheds_emptyid"} ->
             [ok |-> TRUE, value |-> text.body]
      [] OTHER -> [ok |-> FALSE, value |-> "None"]

\* The text as it is, nothing cut off.
TruncateUncut(text, n) == text

\* text[:n]
Truncate(text, n) == [body |-> text.body, len |-> Min(text.len, n)]

---------------------------------------------------------------------------
\* run_step, lines 69-90: what is computed before the process is spawned.

\* shlex.quote: a token of safe characters only stays as it is, any other is wrapped
\* in single quotes. These are the tokens of the model's commands that hold a space
\* or a shell character.
UnsafeTokens ==
    {"hi there",
     "Confirm setup; summarize config.",
     "OpenAPI workflow is critical; never edit openapi/openapi.json manually.",
     "OpenAPI workflow",
     "{\"action\": \"list\", \"path\": \".\", \"recursive\": false}",
     "{\"action\": \"read\", \"path\": \"AGENTS.md\"}",
     "Using the indexed docs, propose a repo audit checklist.",
     "Operate without tools. Explain limitations.",
     "Try to use a tool.",
     "Generate a simple abstract image prompt.",
     "uc5 nightly image",
     "Generate an image for testing.",
     "0 2 * * *",
     "When asked to change code: inspect files, propose minimal diffs, and request tests.",
     "You are panel-optimist. Keep outputs structured and actionable.",
     "You are panel-skeptic. Keep outputs structured and actionable.",
     "You are panel-auditor. Keep outputs structured and actionable.",
     "UC27 smoke skill for testing store reset behavior.",
     "You are uc20-personality-1. Keep outputs structured and actionable.",
     "You are uc20-personality-2. Keep outputs structured and actionable.",
     "You are uc20-personality-3. Keep outputs structured and actionable.",
     "You are uc20-personality-4. Keep outputs structured and actionable.",
     "You are uc20-personality-5. Keep outputs structured and actionable.",
     "uc20 temp",
     "*/30 * * * *",
     "Output two short paragraphs.",
     "Provide 3 operational tips for running long ThinkCLI sessions.",
     "{\"code\": \"print('py_ok')\", \"timeout\": 10}",
     "{\"type\": \"shortTerm\", \"content\": \"UC29 tool smoke\", \"keywords\": [\"uc29\", \"smoke\"]}",
     "{\"action\": \"create\", \"chat_id\": \"id-uc29-canvas\", \"title\": \"UC29\", \"content\": \"tool belt\"}",
     "{\"location\": \"San Francisco, CA\", \"days\": 1}",
     "{\"query\": \"OpenClaw workflows\", \"resultCount\": 1}"}

\* Inside the single quotes shlex.quote puts '"'"' for each single quote of the token.
QuoteEscaped(tok) ==
    CASE tok = "{\"code\": \"print('py_ok')\", \"timeout\": 10}" ->
             "{\"code\": \"print('\"'\"'py_ok'\"'\"')\", \"timeout\": 10}"
      [] OTHER -> tok

ShlexQuote(tok) ==
    IF tok \in UnsafeTokens THEN <<"'", QuoteEscaped(tok), "'">> ELSE <<tok>>

RECURSIVE SafeCmd(_)
SafeCmd(cmd) ==
    IF cmd = <<>> THEN <<>>
    ELSE ShlexQuote(Head(cmd)) \o (IF Len(cmd) = 1 THEN <<>> ELSE <<" ">>) \o SafeCmd(Tail(cmd))

Cmd(ctx, args) ==
    <<ctx.think_bin, "--store", ctx.store_name, "--workspace", ctx.workspace>> \o args

\* .replace("/", "_").replace(" ", "_") on the step names the model uses.
Sanitize(name) ==
    CASE name = "rag index" -> "rag_index"
      [] OTHER -> name

\* f"{int(time.time())}-{name}" with the two replacements; the log files are
\* logs_dir / f"{prefix}.out.txt", f"{prefix}.err.txt", f"{prefix}.meta.json".
Prefix(t, name) == ToString(t) \o "-" \o Sanitize(name)

Path(prefix, ext) == prefix \o "." \o ext

IsChatSend(args) ==
    \E i \in 1..(Len(args) - 1) : args[i] = "chat" /\ args[i + 1] = "send"

\* EffectiveTimeout as it would be if only the head of args were looked at.
EffectiveTimeoutHeadOnly(timeout_s, args, chatTimeout) ==
    LET explicit == IF ~IsNone(timeout_s) /\ Get(timeout_s) > 0 THEN timeout_s ELSE None
    IN  IF ~IsNone(explicit) THEN explicit
        ELSE IF Len(args) >= 2 /\ args[1] = "chat" /\ args[2] = "send"
             THEN (IF chatTimeout > 0 THEN Some(chatTimeout) ELSE None)
             ELSE None

EffectiveTimeout(timeout_s, args, chatTimeout) ==
    LET explicit == IF ~IsNone(timeout_s) /\ Get(timeout_s) > 0 THEN timeout_s ELSE None
    IN  IF ~IsNone(explicit) THEN explicit
        ELSE IF IsChatSend(args)
             THEN (IF chatTimeout > 0 THEN Some(chatTimeout) ELSE None)
             ELSE None

---------------------------------------------------------------------------
\* main, lines 375-385: the HuggingFace token the steps are given. The environment
\* holds HF_TOKEN or not; the token cache file exists with some text, or not.
TokenPath == "~/.cache/huggingface/token"

\* str.strip() on the texts the token cache file holds in the model.
Strip(text) ==
    CASE text = "hf_file\n" -> "hf_file"
      [] text = " \n" -> ""
      [] OTHER -> text

\* ResolveToken as it would be if the cache file were read whatever HF_TOKEN holds.
ResolveTokenFileFirst(hf_token, token_file) ==
    IF ~IsNone(token_file) /\ Strip(Get(token_file)) # ""
    THEN [token |-> Some(Strip(Get(token_file))), consulted |-> TRUE]
    ELSE [token |-> hf_token, consulted |-> TRUE]

\* if not env.get("HF_TOKEN"): if token_path.exists(): token = read_text().strip();
\* if token: env["HF_TOKEN"] = token
ResolveToken(hf_token, token_file) ==
    IF ~IsNone(hf_token) /\ Get(hf_token) # ""
    THEN [token |-> hf_token, consulted |-> FALSE]
    ELSE IF ~IsNone(token_file) /\ Strip(Get(token_file)) # ""
         THEN [token |-> Some(Strip(Get(token_file))), consulted |-> TRUE]
         ELSE [token |-> hf_token, consulted |-> TRUE]

\* The contexts main builds (lines 387-394 and 1053-1060); hf_token is what
\* ctx.env holds for HF_TOKEN.
MainCtx ==
    [think_bin |-> "think", workspace |-> "/ws", store_name |-> "codex-usecases",
     hf_token |-> ResolveToken(env.hf_token, env.token_file).token]

Ctx27 == [MainCtx EXCEPT !.store_name = "codex-uc27"]

---------------------------------------------------------------------------
\* reset_cli_store, lines 327-356. Paths are relative to ~/Library/Application Support.
\* A path of the disk is absent, a file that can be unlinked, or locked: something
\* there that unlink fails on (a directory, or a file in a read-only directory).

\* StoreBase as it would be without the stripping.
StoreBaseUnstripped(store_name) == store_name

\* store_name[:-6] if store_name.endswith(".store") else store_name
StoreBase(store_name) ==
    CASE store_name = "legacy.store" -> "legacy"
      [] OTHER -> store_name

\* What each candidate appends to the store path: with_suffix(suffix + x) on a path
\* puts x after the whole name.
CandidateSuffixes ==
    <<".version", "", ".sqlite", ".sqlite-wal", ".sqlite-shm", ".store", ".store-wal",
      ".store-shm", ".store.store-wal", ".store.store-shm">>

Candidates(store_name) ==
    [k \in 1..Len(CandidateSuffixes) |-> StoreBase(store_name) \o CandidateSuffixes[k]]

Exists(d, p) == p \in DOMAIN d /\ d[p] # "absent"

\* p.unlink(): the file is gone, or the call raises and the disk stays as it is.
Unlink(d, p) ==
    IF d[p] = "file"
    THEN [raised |-> FALSE, disk |-> [d EXCEPT ![p] = "absent"]]
    ELSE [raised |-> TRUE, disk |-> d]

\* ResetOne as it would be without the try / except around the unlink.
ResetOneUncaught(acc, p) ==
    IF acc.raised \/ ~Exists(acc.disk, p) THEN acc
    ELSE LET u == Unlink(acc.disk, p)
         IN  [raised |-> u.raised, disk |-> u.disk,
              ops |-> Append(acc.ops, [op |-> "unlink", path |-> p, ok |-> ~u.raised])]

\* One round of the loop of lines 350-356: try: if p.exists(): p.unlink()
\* except Exception: pass
ResetOne(acc, p) ==
    IF acc.raised \/ ~Exists(acc.disk, p) THEN acc
    ELSE LET u == Unlink(acc.disk, p)
         IN  [raised |-> FALSE, disk |-> u.disk,
              ops |-> Append(acc.ops, [op |-> "unlink", path |-> p, ok |-> ~u.raised])]

RECURSIVE ResetLoop(_, _)
ResetLoop(acc, cands) ==
    IF cands = <<>> THEN acc
    ELSE ResetLoop(ResetOne(acc, Head(cands)), Tail(cands))

\* reset_cli_store(store_name) on disk d: the disk it leaves, the unlinks it tried,
\* and whether an exception left it.
ResetCliStore(store_name, d) ==
    ResetLoop([raised |-> FALSE, disk |-> d, ops |-> <<>>], Candidates(store_name))

\* The disk a run of main starts on: what an earlier run left of the main store,
\* a model under the Models root, and the database of another store. When the
\* earlier run's schedule is still listed, its database could not be removed.
DiskOf(e) ==
    [p \in {"codex-usecases.sqlite", "codex-usecases.sqlite-wal", "codex-uc27.sqlite",
            "ThinkAI/Models/mlx-community_SmolLM-135M-4bit", "other.sqlite"} |->
        IF p = "codex-usecases.sqlite" /\ e.stale_schedule THEN "locked" ELSE "file"]

\* The operations main did outside run_step are kept with the number of steps
\* invoked before them.
Stamped(ops) == [k \in 1..Len(ops) |-> [op |-> ops[k].op, path |-> ops[k].path,
                                          ok |-> ops[k].ok, at |-> Len(calls)]]

NoDiag ==
    [kind |-> "none", name |-> "", cmd |-> <<>>, stdout |-> TextEmpty,
     stderr |-> TextEmpty, exit_code |-> None]

NoExc == [kind |-> "none", diag |-> NoDiag]

NoCall ==
    [ctx |-> MainCtx, name |-> "", args |-> <<>>, json_output |-> FALSE,
     allow_fail |-> FALSE, timeout_s |-> None]

IdleStep ==
    [phase |-> "idle", call |-> NoCall, cmd |-> <<>>, safe_cmd |-> <<>>,
     prefix |-> "", eff |-> None, dur |-> 0, started |-> 0,
     rc |-> None, stdout |-> TextEmpty, stderr |-> TextEmpty, dur_ms |-> 0]

NoResult == [rc |-> None, stdout |-> TextEmpty, stderr |-> TextEmpty, parsed |-> "None"]

\* A file system write: path gets content, whatever was there before.
WriteFile(fs, path, content) ==
    [p \in (DOMAIN fs) \cup {path} |-> IF p = path THEN content ELSE fs[p]]

\* What a stream's log file holds: that step's stream, whole or as far as it got.
StreamFile(whole) == [holds |-> "stream", whole |-> whole]

\* MetaRecord as it would be if the exit code were recorded as a success flag.
MetaRecordFlag(st) ==
    [name |-> st.call.name, cmd |-> st.safe_cmd,
     exit_code |-> IF Get(st.rc) = 0 THEN 0 ELSE 1,
     duration_ms |-> st.dur_ms, stdout_path |-> Path(st.prefix, "out.txt"),
     stderr_path |-> Path(st.prefix, "err.txt")]

\* The meta record of lines 122-133.
MetaRecord(st) ==
    [name |-> st.call.name, cmd |-> st.safe_cmd, exit_code |-> Get(st.rc),
     duration_ms |-> st.dur_ms, stdout_path |-> Path(st.prefix, "out.txt"),
     stderr_path |-> Path(st.prefix, "err.txt")]

---------------------------------------------------------------------------
\* run_step, lines 69-113: build the command, pick the effective timeout and spawn
\* the process; without json_output the two log files are opened for writing first.
\* d is how long the spawned process would run if nothing killed it.
Spawn(c, d) ==
    LET cmd == Cmd(c.ctx, c.args)
        prefix == Prefix(now, c.name)
    IN  /\ step' = [phase |-> "running", call |-> c, cmd |-> cmd, safe_cmd |-> SafeCmd(cmd),
                    prefix |-> prefix,
                    eff |-> EffectiveTimeout(c.timeout_s, c.args, CHAT_TIMEOUT_S),
                    dur |-> d, started |-> now, rc |-> None, stdout |-> TextEmpty,
                    stderr |-> TextEmpty, dur_ms |-> 0]
        /\ files' = IF c.json_output THEN files
                    ELSE WriteFile(WriteFile(files, Path(prefix, "out.txt"), StreamFile(FALSE)),
                                   Path(prefix, "err.txt"), StreamFile(FALSE))
        /\ nInvoked' = nInvoked + 1
        /\ calls' = Append(calls, [name |-> c.name, args |-> c.args, prefix |-> prefix,
                                    cmd |-> cmd, hf_token |-> c.ctx.hf_token,
                                    started |-> now])

\* subprocess.run(timeout=eff) on a process that needs d seconds: the timeout expires
\* when there is one and the process needs longer.
Expires(eff, d) == IF IsNone(eff) THEN FALSE ELSE d > Get(eff)

\* The caller is at a point where it may call run_step.
CallerReady ==
    /\ run.status = "running"
    /\ exc.kind = "none"
    /\ step.phase \in {"idle", "returned"}

\* What the target process may print on stderr, by command.
StderrOf(args) ==
    IF Len(args) >= 2 /\ args[1] = "models" /\ args[2] = "download"
    THEN StderrTexts \cup {TextAlready}
    ELSE StderrTexts

\* What the target process may print on stdout, by command; a listing of schedules
\* shows what the store holds.
StdoutOf(args) ==
    IF Len(args) < 2 THEN StdoutTexts
    ELSE IF args[2] = "create" /\ args[1] \in {"skills", "personality"}
         THEN {TextMsgUuid, TextMsgPlain, TextDictId, TextNoise}
    ELSE IF args[2] = "list" /\ args[1] \in {"skills", "personality"}
         THEN {TextListHit, TextListMiss, TextListNoId, TextListEmptyId, TextDict}
    ELSE IF args[2] = "chat" /\ args[1] = "personality"
         THEN {TextMsgUuid, TextMsgPlain, TextDict, TextNoise}
    ELSE IF args[2] = "list" /\ args[1] \in {"models", "tools"}
         THEN {TextListHit, TextListMiss, TextDict, TextNoise}
    ELSE IF args[2] = "send" /\ args[Len(args)] = "json-lines"
         THEN {TextJsonlTwo, TextJsonlMixed, TextJsonlNoise, TextEmpty}
    ELSE IF args[2] = "list" /\ args[1] = "schedules"
         THEN (IF env.stale_schedule THEN {TextSchedsStaleFirst, TextSchedsOwnFirst}
               ELSE {TextSchedsOwn, TextSchedsNone, TextSchedsNoId, TextSchedsEmptyId,
                     TextDict})
    ELSE StdoutTexts

\* The process runs to its end within the effective timeout: subprocess.run returns
\* (lines 92-115) with the exit code and the two streams.
ProcExit ==
    /\ step.phase = "running"
    /\ ~Expires(step.eff, step.dur)
    /\ \E rc \in ExitCodes, out \in StdoutOf(step.call.args), err \in StderrOf(step.call.args) :
          step' = [step EXCEPT !.phase = "exited", !.rc = Some(rc),
                               !.stdout = out, !.stderr = err]
    /\ files' = IF step.call.json_output THEN files
                ELSE WriteFile(WriteFile(files, Path(step.prefix, "out.txt"), StreamFile(TRUE)),
                               Path(step.prefix, "err.txt"), StreamFile(TRUE))
    /\ now' = now + step.dur
    /\ UNCHANGED <<env, disk, fsops, result, exc, run, nInvoked, calls, pc, locals>>

\* ProcTimeout as it would be if run_step caught TimeoutExpired and, with allow_fail,
\* handed the caller a failed result.
ProcTimeoutTolerated ==
    /\ step.phase = "running"
    /\ Expires(step.eff, step.dur)
    /\ now' = now + Get(step.eff)
    /\ IF step.call.allow_fail
       THEN /\ step' = [step EXCEPT !.phase = "returned", !.rc = Some(1)]
            /\ result' = [NoResult EXCEPT !.rc = Some(1)]
            /\ UNCHANGED exc
       ELSE /\ step' = [step EXCEPT !.phase = "killed"]
            /\ exc' = [kind |-> "TimeoutExpired",
                       diag |-> [NoDiag EXCEPT !.kind = "timeout", !.cmd = step.cmd]]
            /\ UNCHANGED result
    /\ UNCHANGED <<env, disk, fsops, files, run, nInvoked, calls, pc, locals>>

\* The process outlives the effective timeout: subprocess.run kills it and raises
\* TimeoutExpired (lines 92-98, 106-113); nothing in run_step or main catches it.
ProcTimeout ==
    /\ step.phase = "running"
    /\ Expires(step.eff, step.dur)
    /\ step' = [step EXCEPT !.phase = "killed"]
    /\ now' = now + Get(step.eff)
    /\ exc' = [kind |-> "TimeoutExpired",
               diag |-> [NoDiag EXCEPT !.kind = "timeout", !.cmd = step.cmd]]
    /\ UNCHANGED <<env, disk, fsops, files, result, run, nInvoked, calls, pc, locals>>

\* Lines 116-135: the duration, the two stream files (when they were buffered) and
\* the meta record.
\* LoggedFiles as it would be if the step's record were not written.
LoggedFilesNoMeta(st, fs) ==
    IF st.call.json_output
    THEN WriteFile(WriteFile(fs, Path(st.prefix, "out.txt"), StreamFile(TRUE)),
                   Path(st.prefix, "err.txt"), StreamFile(TRUE))
    ELSE fs

LoggedFiles(st, fs) ==
    LET withStreams ==
            IF st.call.json_output
            THEN WriteFile(WriteFile(fs, Path(st.prefix, "out.txt"), StreamFile(TRUE)),
                           Path(st.prefix, "err.txt"), StreamFile(TRUE))
            ELSE fs
    IN  WriteFile(withStreams, Path(st.prefix, "meta.json"), MetaRecord(st))

WriteLogs ==
    /\ step.phase = "exited"
    /\ LET st == [step EXCEPT !.dur_ms = (now - step.started) * 1000]
       IN  /\ files' = LoggedFiles(st, files)
           /\ step' = [st EXCEPT !.phase = "logged"]
    /\ UNCHANGED <<env, disk, fsops, now, result, exc, run, nInvoked, calls, pc, locals>>

\* Lines 137-152: parse stdout when asked to, then raise StepFailed or return.
StepFailedDiag(kind, st, code) ==
    [kind |-> kind, name |-> st.call.name, cmd |-> st.safe_cmd,
     stdout |-> Truncate(st.stdout, DiagLimit), stderr |-> Truncate(st.stderr, DiagLimit),
     exit_code |-> code]

\* Classification as it would be with the exit-code check nested under json_output.
ClassificationExitCheckJsonOnly(st) ==
    LET loaded == JsonLoads(st.stdout)
        parsed == IF st.call.json_output /\ loaded.ok THEN loaded.value ELSE "None"
        ret == [rc |-> st.rc, stdout |-> st.stdout, stderr |-> st.stderr, parsed |-> parsed]
    IN  IF st.call.json_output /\ ~loaded.ok /\ ~st.call.allow_fail
        THEN [raised |-> TRUE, diag |-> StepFailedDiag("parse", st, None), ret |-> NoResult]
        ELSE IF st.call.json_output /\ Get(st.rc) # 0 /\ ~st.call.allow_fail
        THEN [raised |-> TRUE, diag |-> StepFailedDiag("exit", st, st.rc), ret |-> NoResult]
        ELSE [raised |-> FALSE, diag |-> NoDiag, ret |-> ret]

\* Classification as it would be if a parse failure were fatal only on a failed exit.
ClassificationParseOnlyOnFailure(st) ==
    LET loaded == JsonLoads(st.stdout)
        parsed == IF st.call.json_output /\ loaded.ok THEN loaded.value ELSE "None"
        ret == [rc |-> st.rc, stdout |-> st.stdout, stderr |-> st.stderr, parsed |-> parsed]
    IN  IF st.call.json_output /\ ~loaded.ok /\ ~st.call.allow_fail /\ Get(st.rc) # 0
        THEN [raised |-> TRUE, diag |-> StepFailedDiag("parse", st, None), ret |-> NoResult]
        ELSE IF Get(st.rc) # 0 /\ ~st.call.allow_fail
        THEN [raised |-> TRUE, diag |-> StepFailedDiag("exit", st, st.rc), ret |-> NoResult]
        ELSE [raised |-> FALSE, diag |-> NoDiag, ret |-> ret]

\* Classification as it would be if a tolerated failure were returned as a sentinel.
ClassificationSentinel(st) ==
    LET loaded == JsonLoads(st.stdout)
        parsed == IF st.call.json_output /\ loaded.ok THEN loaded.value ELSE "None"
        failed == Get(st.rc) # 0 \/ (st.call.json_output /\ ~loaded.ok)
        ret == [rc |-> IF failed THEN Some(1) ELSE st.rc, stdout |-> st.stdout,
                stderr |-> st.stderr, parsed |-> IF failed THEN "None" ELSE parsed]
    IN  IF st.call.json_output /\ ~loaded.ok /\ ~st.call.allow_fail
        THEN [raised |-> TRUE, diag |-> StepFailedDiag("parse", st, None), ret |-> NoResult]
        ELSE IF Get(st.rc) # 0 /\ ~st.call.allow_fail
        THEN [raised |-> TRUE, diag |-> StepFailedDiag("exit", st, st.rc), ret |-> NoResult]
        ELSE [raised |-> FALSE, diag |-> NoDiag, ret |-> ret]

\* Classification as it would be if allow_fail tolerated a parse failure only.
ClassificationExitAlwaysFatal(st) ==
    LET loaded == JsonLoads(st.stdout)
        parsed == IF st.call.json_output /\ loaded.ok THEN loaded.value ELSE "None"
        ret == [rc |-> st.rc, stdout |-> st.stdout, stderr |-> st.stderr, parsed |-> parsed]
    IN  IF st.call.json_output /\ ~loaded.ok /\ ~st.call.allow_fail
        THEN [raised |-> TRUE, diag |-> StepFailedDiag("parse", st, None), ret |-> NoResult]
        ELSE IF Get(st.rc) # 0
        THEN [raised |-> TRUE, diag |-> StepFailedDiag("exit", st, st.rc), ret |-> NoResult]
        ELSE [raised |-> FALSE, diag |-> NoDiag, ret |-> ret]

\* Classification as it would be if stdout were parsed whether or not JSON was asked for.
ClassificationAlwaysParsed(st) ==
    LET loaded == JsonLoads(st.stdout)
        parsed == IF loaded.ok THEN loaded.value ELSE "None"
        ret == [rc |-> st.rc, stdout |-> st.stdout, stderr |-> st.stderr, parsed |-> parsed]
    IN  IF st.call.json_output /\ ~loaded.ok /\ ~st.call.allow_fail
        THEN [raised |-> TRUE, diag |-> StepFailedDiag("parse", st, None), ret |-> NoResult]
        ELSE IF Get(st.rc) # 0 /\ ~st.call.allow_fail
        THEN [raised |-> TRUE, diag |-> StepFailedDiag("exit", st, st.rc), ret |-> NoResult]
        ELSE [raised |-> FALSE, diag |-> NoDiag, ret |-> ret]

Classification(st) ==
    LET loaded == JsonLoads(st.stdout)
        parsed == IF st.call.json_output /\ loaded.ok THEN loaded.value ELSE "None"
        ret == [rc |-> st.rc, stdout |-> st.stdout, stderr |-> st.stderr, parsed |-> parsed]
    IN  IF st.call.json_output /\ ~loaded.ok /\ ~st.call.allow_fail
        THEN [raised |-> TRUE, diag |-> StepFailedDiag("parse", st, None), ret |-> NoResult]
        ELSE IF Get(st.rc) # 0 /\ ~st.call.allow_fail
        THEN [raised |-> TRUE, diag |-> StepFailedDiag("exit", st, st.rc), ret |-> NoResult]
        ELSE [raised |-> FALSE, diag |-> NoDiag, ret |-> ret]

Classify ==
    /\ step.phase = "logged"
    /\ LET c == Classification(step)
       IN  IF c.raised
           THEN /\ exc' = [kind |-> "StepFailed", diag |-> c.diag]
                /\ step' = [step EXCEPT !.phase = "raised"]
                /\ UNCHANGED result
           ELSE /\ result' = c.ret
                /\ step' = [step EXCEPT !.phase = "returned"]
                /\ UNCHANGED exc
    /\ UNCHANGED <<env, disk, fsops, now, files, run, nInvoked, calls, pc, locals>>

---------------------------------------------------------------------------
\* The entry point, lines 1129-1134, and the end of main, lines 1125-1126.
\* ExitRun as it would be if the log directory were announced on every exit.
ExitRunAnnounced(code, out, err) ==
    run' = [status |-> "exited", exit_code |-> Some(code),
            stdout |-> run.stdout \o <<"logs_dir">>, stderr |-> run.stderr \o err]

ExitRun(code, out, err) ==
    run' = [status |-> "exited", exit_code |-> Some(code),
            stdout |-> run.stdout \o out, stderr |-> run.stderr \o err]

\* except StepFailed: print the message to stderr, exit 1.
CatchStepFailed ==
    /\ run.status = "running"
    /\ exc.kind = "StepFailed"
    /\ ExitRun(1, <<>>, <<exc.diag>>)
    /\ UNCHANGED <<env, disk, fsops, now, files, step, result, exc, nInvoked, calls, pc, locals>>

\* Any other exception leaves the entry point uncaught: the interpreter prints the
\* traceback (for SystemExit(message): the message) to stderr and exits with status 1.
UncaughtException ==
    /\ run.status = "running"
    /\ exc.kind \notin {"none", "StepFailed"}
    /\ ExitRun(1, <<>>,
               <<[exc.diag EXCEPT !.kind =
                     IF exc.kind = "SystemExit" THEN "message" ELSE "traceback"]>>)
    /\ UNCHANGED <<env, disk, fsops, now, files, step, result, exc, nInvoked, calls, pc, locals>>

---------------------------------------------------------------------------
\* _extract_uuid, lines 35-47. A text is a sequence of pieces: whitespace, or a run of
\* non-whitespace characters; adjacent runs read as one token.
Whitespace == {" ", "\n"}

UuidPlain == "123e4567-e89b-12d3-a456-426614174000"
UuidBraced == "{9F8E7D6C-5B4A-4321-8FED-CBA987654321}"

\* uuid.UUID(token) succeeds: after dropping urn:, uuid:, outer braces and hyphens the
\* token is 32 hex digits. Of the tokens the pieces can build, these are the ones.
UuidForms == {UuidPlain, UuidBraced}

UuidParses(token) == token \in UuidForms

\* text.strip().split(): the maximal runs of non-whitespace, in order.
RECURSIVE SplitFrom(_, _, _)
SplitFrom(text, cur, acc) ==
    IF text = <<>> THEN (IF cur = "" THEN acc ELSE Append(acc, cur))
    ELSE IF Head(text) \in Whitespace
         THEN SplitFrom(Tail(text), "", IF cur = "" THEN acc ELSE Append(acc, cur))
         ELSE SplitFrom(Tail(text), cur \o Head(text), acc)

Split(text) == SplitFrom(text, "", <<>>)

\* The scan as it would be from the front of the token list.
RECURSIVE FirstParsing(_)
FirstParsing(tokens) ==
    IF tokens = <<>> THEN None
    ELSE IF UuidParses(Head(tokens)) THEN Some(Head(tokens))
    ELSE FirstParsing(Tail(tokens))

\* for token in reversed(tokens): return the first that uuid.UUID accepts.
RECURSIVE LastParsing(_)
LastParsing(tokens) ==
    IF tokens = <<>> THEN None
    ELSE IF UuidParses(tokens[Len(tokens)]) THEN Some(tokens[Len(tokens)])
    ELSE LastParsing(SubSeq(tokens, 1, Len(tokens) - 1))

\* ExtractUuid as it would be scanning from the front.
ExtractUuidForward(text) == FirstParsing(Split(text))

ExtractUuid(text) == LastParsing(Split(text))

---------------------------------------------------------------------------
\* The scenario script: the calls main makes, in source order (lines 398-552:
\* preflight, model selection, onboarding, use cases 1 to 5).

\* Model candidates; flat is repo_id.replace("/", "_").
LanguageCandidates ==
    <<[repo |-> "mlx-community/SmolLM-135M-4bit", backend |-> "mlx",
       flat |-> "mlx-community_SmolLM-135M-4bit"],
      [repo |-> "mlx-community/SmolLM-360M-Instruct-4bit", backend |-> "mlx",
       flat |-> "mlx-community_SmolLM-360M-Instruct-4bit"],
      [repo |-> "mlx-community/SmolLM-1.7B-Instruct-4bit", backend |-> "mlx",
       flat |-> "mlx-community_SmolLM-1.7B-Instruct-4bit"]>>

DiffusionCandidates ==
    <<[repo |-> "coreml-community/coreml-Inkpunk-Diffusion", backend |-> "coreml",
       flat |-> "coreml-community_coreml-Inkpunk-Diffusion"]>>

LocalVars ==
    {"$lang_repo", "$diff_repo", "$chat1", "$ids_uc1_0", "$ids_uc1_1", "$chat2",
     "$rag_ids2_0", "$rag_ids2_1", "$chat3", "$chat5", "$sched_id"}

OpDefaults ==
    [kind |-> "run_step", line |-> 0, name |-> "", args |-> <<>>, json_output |-> FALSE,
     allow_fail |-> FALSE, timeout_s |-> None, var |-> "", val |-> "",
     candidates |-> <<>>, title |-> "", list_name |-> "", list_args |-> <<>>,
     guarded |-> 0, ctx |-> "main", tool |-> "", tool_args |-> <<>>, idx |-> 0]

\* run_step(ctx, name, args, json_output=json)
Step(line, name, args, json) ==
    [OpDefaults EXCEPT !.line = line, !.name = name, !.args = args, !.json_output = json]

\* create_chat(ctx, title), lines 228-234; val is the id the target gives the chat.
CreateChat(line, title, var) ==
    [OpDefaults EXCEPT !.kind = "create_chat", !.line = line, !.name = "chat_create",
        !.args = <<"chat", "create", "--title", title, "--format", "json">>,
        !.json_output = TRUE, !.var = var, !.val = "id-" \o title]

\* rag_index_file_for_chat, lines 303-310; val is str(uuid.uuid4()).upper().
RagIndexFile(line, chatVar, fileName, var, val) ==
    [OpDefaults EXCEPT !.kind = "rag_index", !.line = line, !.name = "rag_index_" \o fileName,
        !.args = <<"rag", "index", "--chat", chatVar, "--id", val, "--file", "/ws/" \o fileName>>,
        !.var = var, !.val = val]

\* rag_index_text_for_chat, lines 313-320.
RagIndexText(line, chatVar, text, var, val) ==
    [OpDefaults EXCEPT !.kind = "rag_index", !.line = line, !.name = "rag_index_text",
        !.args = <<"rag", "index", "--chat", chatVar, "--id", val, "--text", text>>,
        !.var = var, !.val = val]

\* RagDelete as it would be if the chat of the first use case were always named.
RagDeleteFirstChat(line, chatVar, idVar) ==
    [OpDefaults EXCEPT !.kind = "rag_delete", !.line = line, !.name = "rag_delete_",
        !.args = <<"rag", "delete", "--chat", "$chat1", idVar>>, !.var = idVar]

\* rag_delete_for_chat, lines 323-324; the step name is completed with the content id.
RagDelete(line, chatVar, idVar) ==
    [OpDefaults EXCEPT !.kind = "rag_delete", !.line = line, !.name = "rag_delete_",
        !.args = <<"rag", "delete", "--chat", chatVar, idVar>>, !.var = idVar]

\* create_skill(ctx, name, tools, instructions), lines 237-268.
CreateSkill(line, name, tools, instructions, var) ==
    [OpDefaults EXCEPT !.kind = "create_skill", !.line = line,
        !.name = "skill_create_" \o name,
        !.args = <<"skills", "create", "--name", name, "--description", "autogen:" \o name,
                   "--instructions", instructions, "--format", "json">> \o tools,
        !.json_output = TRUE, !.var = var, !.title = name,
        !.list_name = "skills_list", !.list_args = <<"skills", "list", "--format", "json">>]

\* create_personality(ctx, name, category), lines 271-300.
CreatePersonality(line, name, category, var) ==
    [OpDefaults EXCEPT !.kind = "create_personality", !.line = line,
        !.name = "personality_create_" \o name,
        !.args = <<"personality", "create", "--name", name, "--description",
                   "autogen:" \o name, "--instructions",
                   "You are " \o name \o ". Keep outputs structured and actionable.",
                   "--category", category, "--format", "json">>,
        !.json_output = TRUE, !.var = var, !.title = name,
        !.list_name = "personality_list",
        !.list_args = <<"personality", "list", "--format", "json">>]

\* ListAndFind as it would be if the steps that follow were not under the `if`.
ListAndFindUnguarded(line, name, args, title, var, guarded) ==
    [OpDefaults EXCEPT !.kind = "list_find", !.line = line, !.name = name, !.args = args,
        !.json_output = TRUE, !.title = title, !.var = var, !.guarded = 0]

\* A listing step followed by the scan for a title (lines 537-546): var gets the id
\* found; the guarded steps that follow run only when there is one.
ListAndFind(line, name, args, title, var, guarded) ==
    [OpDefaults EXCEPT !.kind = "list_find", !.line = line, !.name = name, !.args = args,
        !.json_output = TRUE, !.title = title, !.var = var, !.guarded = guarded]

\* Lines 897-905: the step that opens the chat of a personality, and the reading of
\* the chat id out of its message; val is the id the target gives that chat.
ExtractChat(line, name, args, var, val) ==
    [OpDefaults EXCEPT !.kind = "extract_chat", !.line = line, !.name = name, !.args = args,
        !.json_output = TRUE, !.var = var, !.val = val]

\* A step of a loop over extra_chats (lines 907-910, 929-930) for the chat at position
\* idx; the step name ends in cid[:8].
ForChat(line, name, args, json, idx) ==
    [OpDefaults EXCEPT !.kind = "for_chat", !.line = line, !.name = name, !.args = args,
        !.json_output = json, !.idx = idx]

\* The step of the loop over extra_personalities[1:] (lines 931-932) for the
\* personality whose id var holds; the step name ends in pid[:8].
ForPersonality(line, name, args, var) ==
    [OpDefaults EXCEPT !.kind = "for_personality", !.line = line, !.name = name,
        !.args = args, !.var = var]

\* reset_cli_store(ctx27.store_name), line 1060.
ResetStore(line, which) ==
    [OpDefaults EXCEPT !.kind = "reset_store", !.line = line, !.ctx = which]

\* run_tool(ctx, name, tool_name, tool_args, allow_fail=..., timeout_s=...)
RunTool(line, name, tool_name, tool_args, allow_fail, timeout_s) ==
    [OpDefaults EXCEPT !.kind = "run_tool", !.line = line, !.name = name, !.tool = tool_name,
        !.tool_args = tool_args, !.json_output = TRUE, !.allow_fail = allow_fail,
        !.timeout_s = timeout_s]

\* A step whose parsed value main keeps for a later check (line 1103).
KeepParsed(line, name, args, var) ==
    [OpDefaults EXCEPT !.kind = "keep_parsed", !.line = line, !.name = name, !.args = args,
        !.json_output = TRUE, !.var = var]

\* if not isinstance(tools29, list): raise StepFailed(...), lines 1110-1111.
RequireList(line, var) ==
    [OpDefaults EXCEPT !.kind = "require_list", !.line = line, !.var = var]

\* The json-lines send of use case 28 and the check of its output, lines 1078-1100.
SendJsonLines(line, name, args) ==
    [OpDefaults EXCEPT !.kind = "jsonl_send", !.line = line, !.name = name, !.args = args]

\* ensure_language_model / ensure_diffusion_model, lines 203-225.
Ensure(line, var, candidates) ==
    [OpDefaults EXCEPT !.kind = "ensure", !.line = line, !.var = var,
        !.candidates = candidates]

MainScript ==
    <<Step(398, "doctor_pre", <<"doctor", "--format", "json">>, FALSE),
      Step(399, "status_pre", <<"status", "--format", "json">>, TRUE),
      Step(400, "models_list_pre", <<"models", "list", "--format", "json">>, TRUE),
      Ensure(403, "$lang_repo", LanguageCandidates),
      Ensure(404, "$diff_repo", DiffusionCandidates),
      Step(407, "onboard",
           <<"onboard", "--non-interactive", "--workspace-path", "/ws", "--model",
             "$lang_repo", "--backend", "mlx", "--skip-download">>, FALSE),
      Step(422, "config_show", <<"config", "show", "--format", "json">>, TRUE),
      Step(423, "config_resolve", <<"config", "resolve", "--format", "json">>, TRUE),
      \* Use case 1
      CreateChat(426, "uc1-bootstrap", "$chat1"),
      Step(427, "chat_send_uc1",
           <<"chat", "send", "--session", "$chat1", "--prompt",
             "Confirm setup; summarize config.", "--no-stream", "--format", "json">>, TRUE),
      RagIndexFile(429, "$chat1", "AGENTS.md", "$ids_uc1_0", "UUID-1"),
      RagIndexText(430, "$chat1",
           "OpenAPI workflow is critical; never edit openapi/openapi.json manually.",
           "$ids_uc1_1", "UUID-2"),
      Step(436, "rag_search_uc1",
           <<"rag", "search", "--chat", "$chat1", "--query", "OpenAPI workflow",
             "--limit", "3", "--format", "json">>, TRUE),
      Step(442, "gateway_start_once", <<"gateway", "start", "--once", "--port", "9876">>, FALSE),
      Step(443, "gateway_status", <<"gateway", "status", "--format", "json">>, TRUE),
      RagDelete(445, "$chat1", "$ids_uc1_0"),
      RagDelete(445, "$chat1", "$ids_uc1_1"),
      \* Use case 2
      CreateChat(448, "uc2-audit", "$chat2"),
      RagIndexFile(450, "$chat2", "AGENTS.md", "$rag_ids2_0", "UUID-3"),
      RagIndexFile(451, "$chat2", "CLAUDE.md", "$rag_ids2_1", "UUID-4"),
      Step(453, "tools_list_uc2", <<"tools", "list", "--format", "json">>, TRUE),
      Step(454, "tools_run_workspace_list",
           <<"tools", "run", "workspace", "--args",
             "{\"action\": \"list\", \"path\": \".\", \"recursive\": false}",
             "--format", "json">>, TRUE),
      Step(460, "tools_run_workspace_read_agents",
           <<"tools", "run", "workspace", "--args",
             "{\"action\": \"read\", \"path\": \"AGENTS.md\"}", "--format", "json">>, TRUE),
      Step(466, "chat_send_uc2",
           <<"chat", "send", "--session", "$chat2", "--prompt",
             "Using the indexed docs, propose a repo audit checklist.", "--no-stream",
             "--format", "json">>, TRUE),
      Step(467, "rag_search_uc2",
           <<"rag", "search", "--chat", "$chat2", "--query", "OpenAPI", "--limit", "5",
             "--format", "json">>, TRUE),
      RagDelete(474, "$chat2", "$rag_ids2_0"),
      RagDelete(474, "$chat2", "$rag_ids2_1"),
      \* Use case 3
      CreateChat(477, "uc3-zero-trust", "$chat3"),
      Step(478, "status_deny",
           <<"status", "--tool-access", "deny", "--format", "json">>, TRUE),
      Step(480, "chat_send_uc3_no_tools",
           <<"chat", "send", "--session", "$chat3", "--prompt",
             "Operate without tools. Explain limitations.", "--no-tools", "--no-stream",
             "--format", "json">>, TRUE),
      [Step(483, "chat_send_uc3_expect_denied",
           <<"chat", "send", "--session", "$chat3", "--prompt", "Try to use a tool.",
             "--tools", "workspace", "--no-stream", "--tool-access", "deny",
             "--format", "json">>, TRUE) EXCEPT !.allow_fail = TRUE],
      \* Use case 4
      [OpDefaults EXCEPT !.kind = "write_text", !.line = 493, !.name = "dummy.model"],
      Step(494, "models_add_local_dummy",
           <<"models", "add-local", "--name", "dummy-local", "--path", "/logs/dummy.model",
             "--backend", "mlx", "--type", "language", "--format", "json">>, TRUE),
      Step(500, "models_list_uc4", <<"models", "list", "--format", "json">>, TRUE),
      [Step(502, "config_set_skills_empty",
           <<"config", "set", "--skills", "nonexistent-skill", "--format", "json">>, TRUE)
         EXCEPT !.allow_fail = TRUE],
      Step(503, "config_clear_skills",
           <<"config", "set", "--clear-skills", "--format", "json">>, TRUE),
      \* Use case 5
      CreateChat(506, "uc5-image", "$chat5"),
      Step(507, "chat_send_image",
           <<"chat", "send", "--session", "$chat5", "--prompt",
             "Generate a simple abstract image prompt.", "--image", "--no-stream",
             "--format", "json">>, TRUE),
      Step(514, "schedule_create_img",
           <<"schedules", "create", "--title", "uc5 nightly image", "--prompt",
             "Generate an image for testing.", "--cron", "0 2 * * *", "--action", "image",
             "--chat", "$chat5", "--disabled", "--format", "json">>, TRUE),
      ListAndFind(537, "schedules_list_uc5", <<"schedules", "list", "--format", "json">>,
                  "uc5 nightly image", "$sched_id", 3),
      Step(547, "schedule_enable_uc5", <<"schedules", "enable", "$sched_id">>, FALSE),
      Step(548, "schedule_disable_uc5", <<"schedules", "disable", "$sched_id">>, FALSE),
      Step(549, "schedule_delete_uc5", <<"schedules", "delete", "$sched_id">>, FALSE),
      \* Use case 6
      CreateChat(552, "uc6-incident", "$chat5")>>

---------------------------------------------------------------------------
\* Bounds of the model: how many operations of the script a run goes through.
LastOp == 43

\* Program constant: err[:2000] in pick_first_working_model_download.
LastErrLimit == 2000

CurOp == MainScript[pc.i]

\* Resolve as it would be if the onboard step were handed the preferred language
\* model rather than the selected one.
ResolvePreferred(tok) ==
    IF tok = "$lang_repo" THEN LanguageCandidates[1].repo
    ELSE IF tok \in DOMAIN locals THEN locals[tok] ELSE tok

Resolve(tok) == IF tok \in DOMAIN locals THEN locals[tok] ELSE tok

ResolveArgs(args) == [k \in 1..Len(args) |-> Resolve(args[k])]

\* pick_first_working_model_download, lines 186-191: the acquisition step of a candidate.
DownloadCall(cand) ==
    [ctx |-> MainCtx, name |-> "models_download_" \o cand.flat,
     args |-> <<"models", "download", cand.repo, "--backend", cand.backend>>,
     json_output |-> FALSE, allow_fail |-> TRUE, timeout_s |-> None]

\* CtxOf as it would be if the first context were handed to every step.
CtxOfMainOnly(which) == MainCtx

\* The context a call of the script names: ctx, or ctx27.
CtxOf(which) == IF which = "uc27" THEN Ctx27 ELSE MainCtx

\* json.dumps(tool_args): a JSON object of the fields in their order, ", " between
\* the fields and ": " after each key; strings in double quotes, booleans as true and
\* false, integers in decimal, a list of strings in brackets.
RECURSIVE JoinStrs(_, _)
JoinStrs(strs, sep) ==
    IF strs = <<>> THEN ""
    ELSE IF Len(strs) = 1 THEN strs[1]
    ELSE strs[1] \o sep \o JoinStrs(Tail(strs), sep)

Quoted(str) == "\"" \o str \o "\""

JsonValue(f) ==
    CASE f.t = "str" -> Quoted(f.v)
      [] f.t = "bool" -> IF f.v THEN "true" ELSE "false"
      [] f.t = "int" -> ToString(f.v)
      [] f.t = "strs" -> "[" \o JoinStrs([k \in 1..Len(f.v) |-> Quoted(f.v[k])], ", ") \o "]"

JsonDumps(fields) ==
    "{" \o JoinStrs([k \in 1..Len(fields) |-> Quoted(fields[k].k) \o ": " \o JsonValue(fields[k])],
                    ", ") \o "}"

\* The fields of a tool's arguments.
StrField(k, v) == [k |-> k, t |-> "str", v |-> v]
BoolField(k, v) == [k |-> k, t |-> "bool", v |-> v]
IntField(k, v) == [k |-> k, t |-> "int", v |-> v]
StrsField(k, v) == [k |-> k, t |-> "strs", v |-> v]

ResolveFields(fields) ==
    [k \in 1..Len(fields) |->
        IF fields[k].t = "str" THEN [fields[k] EXCEPT !.v = Resolve(fields[k].v)]
        ELSE fields[k]]

\* RunToolCall as it would be if run_tool never tolerated a failure.
RunToolCallStrict(ctx, name, tool_name, tool_args, allow_fail, timeout_s) ==
    [ctx |-> ctx, name |-> name,
     args |-> <<"tools", "run", tool_name, "--args", JsonDumps(tool_args), "--format", "json">>,
     json_output |-> TRUE, allow_fail |-> FALSE, timeout_s |-> timeout_s]

\* run_tool, lines 155-176: the run_step call it makes.
RunToolCall(ctx, name, tool_name, tool_args, allow_fail, timeout_s) ==
    [ctx |-> ctx, name |-> name,
     args |-> <<"tools", "run", tool_name, "--args", JsonDumps(tool_args), "--format", "json">>,
     json_output |-> TRUE, allow_fail |-> allow_fail, timeout_s |-> timeout_s]

\* The run_step call the operation at the caller's position makes.
OpCall(op, sub) ==
    IF op.kind = "ensure" THEN DownloadCall(op.candidates[sub])
    ELSE IF op.kind \in {"create_skill", "create_personality"} /\ sub = 1
    THEN [ctx |-> CtxOf(op.ctx), name |-> op.list_name, args |-> op.list_args,
          json_output |-> TRUE, allow_fail |-> FALSE, timeout_s |-> None]
    ELSE IF op.kind = "run_tool"
    THEN RunToolCall(CtxOf(op.ctx), op.name, op.tool, ResolveFields(op.tool_args),
                     op.allow_fail, op.timeout_s)
    ELSE [ctx |-> CtxOf(op.ctx),
          name |-> IF op.kind = "rag_delete" THEN op.name \o locals[op.var] ELSE op.name,
          args |-> ResolveArgs(op.args), json_output |-> op.json_output,
          allow_fail |-> op.allow_fail, timeout_s |-> op.timeout_s]

\* How long the target may run, by command: a generation may run for long.
DurationsOf(args) == IF IsChatSend(args) THEN {1, 3000} ELSE {1}

\* .lower() on the bodies the model uses.
Lower(body) == IF body = "Already Downloaded" THEN "already downloaded" ELSE body

\* HasMarker as it would be without the .lower().
HasMarkerCaseSensitive(out, err) ==
    out.body = "already downloaded" \/ err.body = "already downloaded"

\* "already downloaded" in (out + "\n" + err).lower()
HasMarker(out, err) ==
    Lower(out.body) = "already downloaded" \/ Lower(err.body) = "already downloaded"

\* main, lines 359-397: the binary must exist; then the token is looked up, the
\* context is built and the store of the run is reset.
MainStart ==
    /\ run.status = "running"
    /\ exc.kind = "none"
    /\ pc.i = 0
    /\ IF env.think_bin_exists
       THEN LET tok == ResolveToken(env.hf_token, env.token_file)
                r == ResetCliStore(MainCtx.store_name, disk)
                look == IF tok.consulted
                        THEN <<[op |-> "exists", path |-> TokenPath,
                                ok |-> ~IsNone(env.token_file)]>>
                        ELSE <<>>
            IN  /\ disk' = r.disk
                /\ fsops' = fsops \o Stamped(look \o r.ops)
                /\ IF r.raised
                   THEN /\ exc' = [kind |-> "OSError",
                                   diag |-> [NoDiag EXCEPT !.kind = "reset_failed"]]
                        /\ UNCHANGED pc
                   ELSE /\ pc' = [i |-> 1, sub |-> 0]
                        /\ UNCHANGED exc
       ELSE /\ exc' = [kind |-> "SystemExit", diag |-> [NoDiag EXCEPT !.kind = "no_binary"]]
            /\ UNCHANGED <<pc, disk, fsops>>
    /\ UNCHANGED <<env, now, files, step, result, run, nInvoked, calls, locals>>

\* EnsureLocal as it would be if only the first candidate were looked for locally.
EnsureLocalHeadOnly ==
    /\ CallerReady
    /\ step.phase = "idle"
    /\ pc.i \in 1..LastOp
    /\ CurOp.kind = "ensure"
    /\ pc.sub = 0
    /\ IF CurOp.candidates[1].flat \in env.local_models
       THEN /\ locals' = [locals EXCEPT ![CurOp.var] = CurOp.candidates[1].repo]
            /\ pc' = [i |-> pc.i + 1, sub |-> 0]
       ELSE /\ pc' = [pc EXCEPT !.sub = 1]
            /\ UNCHANGED locals
    /\ UNCHANGED <<env, disk, fsops, now, files, step, result, exc, run, nInvoked, calls>>

\* ensure_language_model / ensure_diffusion_model, lines 210-214 and 221-225: the
\* first candidate whose model directory exists is returned without any step.
EnsureLocal ==
    /\ CallerReady
    /\ step.phase = "idle"
    /\ pc.i \in 1..LastOp
    /\ CurOp.kind = "ensure"
    /\ pc.sub = 0
    /\ LET cands == CurOp.candidates
           have == {k \in 1..Len(cands) : cands[k].flat \in env.local_models}
       IN  IF have # {}
           THEN /\ locals' = [locals EXCEPT ![CurOp.var] =
                                 cands[CHOOSE k \in have : \A j \in have : k <= j].repo]
                /\ pc' = [i |-> pc.i + 1, sub |-> 0]
           ELSE /\ pc' = [pc EXCEPT !.sub = 1]
                /\ UNCHANGED locals
    /\ UNCHANGED <<env, disk, fsops, now, files, step, result, exc, run, nInvoked, calls>>

\* main, lines 492-493: _write_text(logs_dir / "dummy.model", "dummy").
WriteDummy ==
    /\ CallerReady
    /\ step.phase = "idle"
    /\ pc.i \in 1..LastOp
    /\ CurOp.kind = "write_text"
    /\ files' = WriteFile(files, CurOp.name, [holds |-> "dummy", whole |-> TRUE])
    /\ pc' = [i |-> pc.i + 1, sub |-> 0]
    /\ UNCHANGED <<env, disk, fsops, now, step, result, exc, run, nInvoked, calls, locals>>

\* The caller reaches its next run_step call.
MainCall ==
    /\ CallerReady
    /\ step.phase = "idle"
    /\ pc.i \in 1..LastOp
    /\ IF CurOp.kind = "ensure" THEN pc.sub >= 1 ELSE CurOp.kind # "write_text"
    /\ LET c == OpCall(CurOp, pc.sub)
       IN  \E d \in DurationsOf(c.args) : Spawn(c, d)
    /\ UNCHANGED <<env, disk, fsops, now, result, exc, run, pc, locals>>

\* The values the helpers read out of a parsed response.
\* obj.get("id") if isinstance(obj, dict) else None
IdField(parsed, given) == IF parsed = "dict_id" THEN Some(given) ELSE None

\* obj["message"] when obj is a dict with a str message
MessageOf(parsed) ==
    CASE parsed = "dict_msg_uuid" -> Some(<<"Created", " ", "skill", " ", UuidPlain>>)
      [] parsed = "dict_msg" -> Some(<<"Created", " ", "skill">>)
      [] OTHER -> None

\* The entries of a parsed listing (none when it is not a list); wanted is the name
\* or title the caller is about to scan for.
Listing(parsed, wanted) ==
    CASE parsed = "list_hit" ->
             <<[name |-> "other", id |-> Some("LIST-0")],
               [name |-> wanted, id |-> Some("LIST-1")],
               [name |-> wanted, id |-> Some("LIST-2")]>>
      [] parsed = "list_miss" -> <<[name |-> "other", id |-> Some("LIST-0")]>>
      [] parsed = "list_noid" ->
             <<[name |-> wanted, id |-> None], [name |-> wanted, id |-> Some("LIST-2")]>>
      [] parsed = "list_emptyid" -> <<[name |-> wanted, id |-> Some("")]>>
      [] parsed = "scheds_own" -> <<[name |-> wanted, id |-> Some("SCHED-NEW")]>>
      [] parsed = "scheds_stale_first" ->
             <<[name |-> wanted, id |-> Some("SCHED-OLD")],
               [name |-> wanted, id |-> Some("SCHED-NEW")]>>
      [] parsed = "scheds_own_first" ->
             <<[name |-> wanted, id |-> Some("SCHED-NEW")],
               [name |-> wanted, id |-> Some("SCHED-OLD")]>>
      [] parsed = "scheds_none" -> <<[name |-> "other", id |-> Some("SCHED-0")]>>
      [] parsed = "scheds_noid" -> <<[name |-> wanted, id |-> None]>>
      [] parsed = "scheds_emptyid" -> <<[name |-> wanted, id |-> Some("")]>>
      [] OTHER -> <<>>

\* for s in entries: if s.get("name") == wanted: id = s.get("id"); break
RECURSIVE ScanByName(_, _)
ScanByName(entries, wanted) ==
    IF entries = <<>> THEN None
    ELSE IF Head(entries).name = wanted THEN Head(entries).id
    ELSE ScanByName(Tail(entries), wanted)

\* The target lists the entities of a store in the order they were created: of the
\* entries of one name, the last is the one created last.
RECURSIVE LastByName(_, _)
LastByName(entries, wanted) ==
    IF entries = <<>> THEN None
    ELSE IF entries[Len(entries)].name = wanted THEN entries[Len(entries)].id
    ELSE LastByName(SubSeq(entries, 1, Len(entries) - 1), wanted)

\* Truthy as it would be if only None counted as no id.
TruthyNotNone(id) == ~IsNone(id)

\* The id is one the code goes on with: `if not x` is false.
Truthy(id) == IF IsNone(id) THEN FALSE ELSE Get(id) # ""

\* The line parser of use case 28, lines 1088-1098. A text is a sequence of pieces: a
\* line break, a blank, a JSON object, or a piece of progress noise.
JsonPieces == {"{\"a\":1}", "{\"b\":2}"}

\* out.splitlines(): the pieces between line breaks; a break at the end opens no line.
RECURSIVE SplitLinesFrom(_, _, _)
SplitLinesFrom(text, cur, acc) ==
    IF text = <<>> THEN (IF cur = <<>> THEN acc ELSE Append(acc, cur))
    ELSE IF Head(text) = "\n" THEN SplitLinesFrom(Tail(text), <<>>, Append(acc, cur))
    ELSE SplitLinesFrom(Tail(text), Append(cur, Head(text)), acc)

SplitLines(text) == SplitLinesFrom(text, <<>>, <<>>)

\* line.strip(): the blanks at both ends dropped.
RECURSIVE StripLine(_)
StripLine(line) ==
    IF line = <<>> THEN line
    ELSE IF Head(line) = " " THEN StripLine(Tail(line))
    ELSE IF line[Len(line)] = " " THEN StripLine(SubSeq(line, 1, Len(line) - 1))
    ELSE line

\* json.loads(line) succeeds: the line is one JSON value, nothing before or after it.
LineParses(line) == Len(line) = 1 /\ line[1] \in JsonPieces

\* CountParsed as it would be if a blank line ended the scan.
RECURSIVE CountParsedUntilBlank(_)
CountParsedUntilBlank(lines) ==
    IF lines = <<>> THEN 0
    ELSE IF StripLine(Head(lines)) = <<>> THEN 0
    ELSE (IF LineParses(StripLine(Head(lines))) THEN 1 ELSE 0)
             + CountParsedUntilBlank(Tail(lines))

\* The loop of lines 1089-1098: blank lines skipped, lines that parse counted, the
\* others passed over.
RECURSIVE CountParsed(_)
CountParsed(lines) ==
    IF lines = <<>> THEN 0
    ELSE IF StripLine(Head(lines)) = <<>> THEN CountParsed(Tail(lines))
    ELSE (IF LineParses(StripLine(Head(lines))) THEN 1 ELSE 0) + CountParsed(Tail(lines))

ParsedLines(text) == CountParsed(SplitLines(text))

\* The pieces of the json-lines outputs of the model.
LinesOf(out) ==
    CASE out.body = "jsonl_two" -> <<"{\"a\":1}", "\n", "\n", "{\"b\":2}", "\n">>
      [] out.body = "jsonl_mixed" -> <<"progress", "\n", " ", "{\"a\":1}", "\n">>
      [] out.body = "jsonl_noise" -> <<"progress", "\n">>
      [] OTHER -> <<>>

\* isinstance(value, list) on a parsed value.
IsList(parsed) ==
    parsed \in {"list_hit", "list_miss", "list_noid", "list_emptyid", "scheds_own",
                "scheds_stale_first", "scheds_own_first", "scheds_none", "scheds_noid",
                "scheds_emptyid"}

\* What the caller does with the result of the call, up to its next call.
Raise(kind, diag) == exc' = [kind |-> kind, diag |-> diag]

Proceed(op, id) ==
    /\ locals' = [locals EXCEPT ![op.var] = id]
    /\ pc' = [i |-> pc.i + 1, sub |-> 0]
    /\ UNCHANGED exc

ResumeOp(op) ==
    CASE op.kind = "create_chat" ->
              \* lines 231-234
              LET chat_id == IdField(result.parsed, op.val)
              IN  IF Truthy(chat_id)
                  THEN Proceed(op, Get(chat_id))
                  ELSE /\ Raise("StepFailed", [NoDiag EXCEPT !.kind = "no_chat_id"])
                       /\ UNCHANGED <<pc, locals>>
      [] op.kind \in {"create_skill", "create_personality"} ->
              IF pc.sub = 0
              THEN \* lines 253-256, 287-290
                   LET msg == MessageOf(result.parsed)
                       id == IF IsNone(msg) THEN None ELSE ExtractUuid(Get(msg))
                   IN  IF Truthy(id)
                       THEN Proceed(op, Get(id))
                       ELSE /\ pc' = [pc EXCEPT !.sub = 1]
                            /\ UNCHANGED <<exc, locals>>
              ELSE \* lines 261-268, 293-300
                   LET id == ScanByName(Listing(result.parsed, op.title), op.title)
                   IN  IF Truthy(id)
                       THEN Proceed(op, Get(id))
                       ELSE /\ Raise("StepFailed", [NoDiag EXCEPT !.kind = "no_id"])
                            /\ UNCHANGED <<pc, locals>>
      [] op.kind = "list_find" ->
              \* lines 540-546
              LET id == ScanByName(Listing(result.parsed, op.title), op.title)
              IN  /\ locals' = [locals EXCEPT ![op.var] = IF Truthy(id) THEN Get(id) ELSE ""]
                  /\ pc' = [i |-> pc.i + 1 + (IF Truthy(id) THEN 0 ELSE op.guarded),
                            sub |-> 0]
                  /\ UNCHANGED exc
      [] op.kind = "rag_index" ->
              \* lines 310, 320: return content_id
              Proceed(op, op.val)
      [] op.kind = "extract_chat" ->
              \* lines 903-905: the chat id is kept when there is one
              LET msg == MessageOf(result.parsed)
                  chat_id == IF IsNone(msg) THEN None ELSE ExtractUuid(Get(msg))
              IN  Proceed(op, IF Truthy(chat_id) THEN op.val ELSE "")
      [] op.kind = "keep_parsed" ->
              \* line 1103
              Proceed(op, IF IsList(result.parsed) THEN "list" ELSE "other")
      [] op.kind = "jsonl_send" ->
              \* lines 1085-1100
              IF Get(result.rc) # 0
              THEN /\ Raise("StepFailed", [NoDiag EXCEPT !.kind = "uc28_failed"])
                   /\ UNCHANGED <<pc, locals>>
              ELSE IF ParsedLines(LinesOf(result.stdout)) < 1
              THEN /\ Raise("StepFailed", [NoDiag EXCEPT !.kind = "uc28_no_lines"])
                   /\ UNCHANGED <<pc, locals>>
              ELSE /\ pc' = [i |-> pc.i + 1, sub |-> 0]
                   /\ UNCHANGED <<exc, locals>>
      [] op.kind = "ensure" ->
              \* lines 192-200
              IF Get(result.rc) = 0 \/ HasMarker(result.stdout, result.stderr)
              THEN Proceed(op, op.candidates[pc.sub].repo)
              ELSE IF pc.sub < Len(op.candidates)
              THEN /\ pc' = [pc EXCEPT !.sub = pc.sub + 1]
                   /\ UNCHANGED <<exc, locals>>
              ELSE /\ Raise("StepFailed",
                            [NoDiag EXCEPT !.kind = "all_candidates_failed",
                                !.exit_code = result.rc,
                                !.stderr = Truncate(result.stderr, LastErrLimit)])
                   /\ UNCHANGED <<pc, locals>>
      [] OTHER ->
              /\ pc' = [i |-> pc.i + 1, sub |-> 0]
              /\ UNCHANGED <<exc, locals>>

MainResume ==
    /\ run.status = "running"
    /\ exc.kind = "none"
    /\ step.phase = "returned"
    /\ pc.i \in 1..LastOp
    /\ step' = IdleStep
    /\ result' = NoResult
    /\ ResumeOp(CurOp)
    /\ UNCHANGED <<env, disk, fsops, now, files, run, nInvoked, calls>>

\* main, lines 1125-1126 and 1131: print(str(logs_dir)); return 0.
MainReturns ==
    /\ CallerReady
    /\ step.phase = "idle"
    /\ pc.i = LastOp + 1
    /\ ExitRun(0, <<"logs_dir">>, <<>>)
    /\ UNCHANGED <<env, disk, fsops, now, files, step, result, exc, nInvoked, calls, pc, locals>>

LocalModelChoices ==
    {{}, {LanguageCandidates[2].flat, LanguageCandidates[3].flat},
     {LanguageCandidates[3].flat, DiffusionCandidates[1].flat}}

Envs ==
    [chat_timeout : {None, Some(60)}, think_bin_exists : BOOLEAN,
     local_models : LocalModelChoices, stale_schedule : BOOLEAN,
     hf_token : {None}, token_file : {None}]

Init ==
    /\ env \in Envs
    /\ now = 0
    /\ files = [p \in {} |-> StreamFile(FALSE)]
    /\ step = IdleStep
    /\ result = NoResult
    /\ exc = NoExc
    /\ run = [status |-> "running", exit_code |-> None, stdout |-> <<>>, stderr |-> <<>>]
    /\ nInvoked = 0
    /\ calls = <<>>
    /\ disk = DiskOf(env)
    /\ fsops = <<>>
    /\ pc = [i |-> 0, sub |-> 0]
    /\ locals = [v \in LocalVars |-> ""]

Next ==
    \/ MainStart
    \/ EnsureLocal
    \/ WriteDummy
    \/ MainCall
    \/ ProcExit
    \/ ProcTimeout
    \/ WriteLogs
    \/ Classify
    \/ MainResume
    \/ MainReturns
    \/ CatchStepFailed
    \/ UncaughtException

Spec == Init /\ [][Next]_vars

---------------------------------------------------------------------------
\* run_step on its own: one call with any arguments its signature (lines 55-64)
\* allows, made by a caller that has no handler of its own, under the entry point.
StubNames == {"status_pre", "rag index"}
StubArgs ==
    {<<"status", "--format", "json">>,
     <<"chat", "send", "--prompt", "hi there">>,
     <<"--tool-access", "deny", "chat", "send">>,
     <<"send", "chat">>}
StubTimeouts == {None, Some(-1), Some(0), Some(5)}
\* How long the target process runs when nothing kills it, in seconds.
StubDurations == {0, 100, 3000}

StubCalls ==
    [ctx : {MainCtx}, name : StubNames, args : StubArgs, json_output : BOOLEAN,
     allow_fail : BOOLEAN, timeout_s : StubTimeouts]

StubCall ==
    /\ CallerReady
    /\ pc.i = 0
    /\ \E c \in StubCalls, d \in StubDurations : Spawn(c, d)
    /\ pc' = [i |-> 1, sub |-> 0]
    /\ UNCHANGED <<env, disk, fsops, now, result, exc, run, locals>>

\* The caller got its result and has nothing left to call: it returns 0.
StubReturns ==
    /\ CallerReady
    /\ step.phase = "returned"
    /\ pc.i = 1
    /\ ExitRun(0, <<"logs_dir">>, <<>>)
    /\ UNCHANGED <<env, disk, fsops, now, files, step, result, exc, nInvoked, calls, pc, locals>>

InitStep ==
    /\ env \in [chat_timeout : EnvChatTimeouts, think_bin_exists : {TRUE},
                local_models : {{}}, stale_schedule : {FALSE},
                hf_token : {None}, token_file : {None}]
    /\ now = 0
    /\ files = [p \in {} |-> StreamFile(FALSE)]
    /\ step = IdleStep
    /\ result = NoResult
    /\ exc = NoExc
    /\ run = [status |-> "running", exit_code |-> None, stdout |-> <<>>, stderr |-> <<>>]
    /\ nInvoked = 0
    /\ calls = <<>>
    /\ disk = DiskOf(env)
    /\ fsops = <<>>
    /\ pc = [i |-> 0, sub |-> 0]
    /\ locals = [v \in LocalVars |-> ""]

NextStep ==
    \/ StubCall
    \/ ProcExit
    \/ ProcTimeout
    \/ WriteLogs
    \/ Classify
    \/ StubReturns
    \/ CatchStepFailed
    \/ UncaughtException

SpecStep == InitStep /\ [][NextStep]_vars

---------------------------------------------------------------------------
\* The entity helpers on their own: a caller that uses each of them as main does at
\* lines 600, 608, 644 and 645, under the entry point. The target answers within the
\* second or takes a second.
HelperScript ==
    <<CreateSkill(600, "eng-implementer", <<"--tools", "workspace", "--tools", "python_exec">>,
                  "When asked to change code: inspect files, propose minimal diffs, and request tests.",
                  "$skill8"),
      CreateChat(608, "uc8-eng", "$chat8"),
      CreatePersonality(644, "panel-optimist", "productivity", "$p_opt"),
      CreatePersonality(645, "panel-skeptic", "productivity", "$p_ske")>>

HelperVars == {"$skill8", "$chat8", "$p_opt", "$p_ske"}

HelperDurations == {0, 1}

HelperCall ==
    /\ CallerReady
    /\ step.phase = "idle"
    /\ pc.i \in 1..Len(HelperScript)
    /\ \E d \in HelperDurations : Spawn(OpCall(HelperScript[pc.i], pc.sub), d)
    /\ UNCHANGED <<env, disk, fsops, now, result, exc, run, pc, locals>>

HelperResume ==
    /\ run.status = "running"
    /\ exc.kind = "none"
    /\ step.phase = "returned"
    /\ pc.i \in 1..Len(HelperScript)
    /\ step' = IdleStep
    /\ result' = NoResult
    /\ ResumeOp(HelperScript[pc.i])
    /\ UNCHANGED <<env, disk, fsops, now, files, run, nInvoked, calls>>

\* The caller has all its ids and nothing left to call: it returns 0.
HelperReturns ==
    /\ CallerReady
    /\ step.phase = "idle"
    /\ pc.i = Len(HelperScript) + 1
    /\ ExitRun(0, <<"logs_dir">>, <<>>)
    /\ UNCHANGED <<env, disk, fsops, now, files, step, result, exc, nInvoked, calls, pc, locals>>

InitHelpers ==
    /\ env = [chat_timeout |-> None, think_bin_exists |-> TRUE, local_models |-> {},
              stale_schedule |-> FALSE, hf_token |-> None, token_file |-> None]
    /\ now = 0
    /\ files = [p \in {} |-> StreamFile(FALSE)]
    /\ step = IdleStep
    /\ result = NoResult
    /\ exc = NoExc
    /\ run = [status |-> "running", exit_code |-> None, stdout |-> <<>>, stderr |-> <<>>]
    /\ nInvoked = 0
    /\ calls = <<>>
    /\ disk = DiskOf(env)
    /\ fsops = <<>>
    /\ pc = [i |-> 1, sub |-> 0]
    /\ locals = [v \in HelperVars |-> ""]

\* None of the helpers' commands is a chat send and none is given a timeout, so no
\* step of theirs can time out.
NextHelpers ==
    \/ HelperCall
    \/ ProcExit
    \/ WriteLogs
    \/ Classify
    \/ HelperResume
    \/ HelperReturns
    \/ CatchStepFailed

SpecHelpers == InitHelpers /\ [][NextHelpers]_vars

---------------------------------------------------------------------------
\* main in outline: from its start through the preflight (lines 359-400), then from
\* use case 26 to its end (lines 1037-1126). The stretch between, which makes steps
\* against the first context only, is the subject of MainScript and HelperScript.
OutlineScript ==
    <<Step(398, "doctor_pre", <<"doctor", "--format", "json">>, FALSE),
      Step(399, "status_pre", <<"status", "--format", "json">>, TRUE),
      Step(400, "models_list_pre", <<"models", "list", "--format", "json">>, TRUE),
      \* Use case 26
      Step(1037, "uc26_gateway_start_once",
           <<"gateway", "start", "--once", "--port", "9999", "--token", "uc26-token">>, FALSE),
      Step(1038, "uc26_gateway_status", <<"gateway", "status", "--format", "json">>, TRUE),
      Step(1039, "uc26_models_add_remote",
           <<"models", "add-remote", "--name", "uc26-remote", "--location",
             "http://localhost:9999", "--type", "language", "--format", "json">>, TRUE),
      ListAndFind(1040, "uc26_models_list", <<"models", "list", "--format", "json">>,
                  "uc26-remote", "$remote_id_26", 2),
      Step(1048, "uc26_models_info",
           <<"models", "info", "$remote_id_26", "--format", "json">>, TRUE),
      Step(1049, "uc26_models_remove",
           <<"models", "remove", "$remote_id_26", "--format", "json">>, TRUE),
      \* Use case 27
      ResetStore(1060, "uc27"),
      [Step(1061, "uc27_store_path", <<"store", "path", "--format", "json">>, TRUE)
         EXCEPT !.ctx = "uc27", !.allow_fail = TRUE],
      [Step(1062, "uc27_status_pre_reset", <<"status", "--format", "json">>, TRUE)
         EXCEPT !.ctx = "uc27"],
      [CreateSkill(1063, "uc27-skill", <<"--tools", "workspace">>,
                   "UC27 smoke skill for testing store reset behavior.", "$skill27")
         EXCEPT !.ctx = "uc27"],
      [Step(1069, "uc27_skill_enable", <<"skills", "enable", "$skill27">>, FALSE)
         EXCEPT !.ctx = "uc27"],
      [Step(1070, "uc27_skills_list_pre_reset", <<"skills", "list", "--format", "json">>, TRUE)
         EXCEPT !.ctx = "uc27"],
      [Step(1071, "uc27_store_reset_dry",
            <<"store", "reset", "--dry-run", "--format", "json">>, TRUE)
         EXCEPT !.ctx = "uc27", !.allow_fail = TRUE],
      [Step(1072, "uc27_store_reset", <<"store", "reset", "--format", "json">>, TRUE)
         EXCEPT !.ctx = "uc27", !.allow_fail = TRUE],
      [Step(1073, "uc27_status_post_reset", <<"status", "--format", "json">>, TRUE)
         EXCEPT !.ctx = "uc27"],
      [Step(1074, "uc27_skills_list_post_reset", <<"skills", "list", "--format", "json">>, TRUE)
         EXCEPT !.ctx = "uc27"],
      \* Use case 28
      CreateChat(1077, "uc28-jsonlines", "$chat28"),
      SendJsonLines(1078, "uc28_chat_send_json_lines",
           <<"chat", "send", "--session", "$chat28", "--prompt",
             "Output two short paragraphs.", "--format", "json-lines">>),
      \* Use case 29
      KeepParsed(1103, "uc29_tools_list", <<"tools", "list", "--format", "json">>, "$tools29"),
      RunTool(1104, "uc29_ws_list_root", "workspace",
              <<StrField("action", "list"), StrField("path", "."),
                BoolField("recursive", FALSE)>>, FALSE, None),
      RunTool(1105, "uc29_py_smoke", "python_exec",
              <<StrField("code", "print('py_ok')"), IntField("timeout", 10)>>, FALSE, None),
      RunTool(1106, "uc29_memory_smoke", "memory",
              <<StrField("type", "shortTerm"), StrField("content", "UC29 tool smoke"),
                StrsField("keywords", <<"uc29", "smoke">>)>>, FALSE, None),
      CreateChat(1107, "uc29-canvas", "$chat29"),
      RunTool(1107, "uc29_canvas_smoke", "canvas",
              <<StrField("action", "create"), StrField("chat_id", "$chat29"),
                StrField("title", "UC29"), StrField("content", "tool belt")>>, FALSE, None),
      RunTool(1108, "uc29_weather_smoke", "weather",
              <<StrField("location", "San Francisco, CA"), IntField("days", 1)>>, TRUE, None),
      RunTool(1109, "uc29_browser_search_smoke", "browser.search",
              <<StrField("query", "OpenClaw workflows"), IntField("resultCount", 1)>>,
              TRUE, None),
      RequireList(1110, "$tools29"),
      \* Use case 30
      CreateChat(1114, "uc30-ops", "$chat30"),
      Step(1115, "uc30_chat_send",
           <<"chat", "send", "--session", "$chat30", "--prompt",
             "Provide 3 operational tips for running long ThinkCLI sessions.",
             "--no-stream", "--format", "json">>, TRUE),
      Step(1116, "uc30_chat_stop", <<"chat", "stop", "--session", "$chat30">>, FALSE),
      Step(1117, "uc30_status", <<"status", "--format", "json">>, TRUE),
      Step(1118, "uc30_chat_list", <<"chat", "list", "--format", "json">>, TRUE),
      Step(1119, "uc30_personality_list", <<"personality", "list", "--format", "json">>, TRUE),
      Step(1120, "uc30_skills_list", <<"skills", "list", "--format", "json">>, TRUE),
      \* Final status snapshot
      Step(1123, "status_final", <<"status", "--format", "json">>, TRUE)>>

OutlineVars == {"$remote_id_26", "$skill27", "$chat28", "$tools29", "$chat29", "$chat30"}

OutlineOp == OutlineScript[pc.i]

\* The operation at the caller's position makes no run_step call of its own.
IsLocalOp(op) == op.kind \in {"reset_store", "require_list"}

OutlineCall ==
    /\ CallerReady
    /\ step.phase = "idle"
    /\ pc.i \in 1..Len(OutlineScript)
    /\ ~IsLocalOp(OutlineOp)
    /\ LET c == OpCall(OutlineOp, pc.sub)
       IN  \E d \in DurationsOf(c.args) : Spawn(c, d)
    /\ UNCHANGED <<env, disk, fsops, now, result, exc, run, pc, locals>>

OutlineResume ==
    /\ run.status = "running"
    /\ exc.kind = "none"
    /\ step.phase = "returned"
    /\ pc.i \in 1..Len(OutlineScript)
    /\ step' = IdleStep
    /\ result' = NoResult
    /\ ResumeOp(OutlineOp)
    /\ UNCHANGED <<env, disk, fsops, now, files, run, nInvoked, calls>>

\* OutlineReset as it would be if the second context's store were left as found.
OutlineResetSkipped ==
    /\ CallerReady
    /\ step.phase = "idle"
    /\ pc.i \in 1..Len(OutlineScript)
    /\ OutlineOp.kind = "reset_store"
    /\ pc' = [i |-> pc.i + 1, sub |-> 0]
    /\ UNCHANGED <<env, disk, fsops, now, files, step, result, exc, run, nInvoked, calls,
                   locals>>

\* Line 1060: the second context is built and its store is reset.
OutlineReset ==
    /\ CallerReady
    /\ step.phase = "idle"
    /\ pc.i \in 1..Len(OutlineScript)
    /\ OutlineOp.kind = "reset_store"
    /\ LET r == ResetCliStore(CtxOf(OutlineOp.ctx).store_name, disk)
       IN  /\ disk' = r.disk
           /\ fsops' = fsops \o Stamped(r.ops)
           /\ IF r.raised
              THEN /\ exc' = [kind |-> "OSError",
                              diag |-> [NoDiag EXCEPT !.kind = "reset_failed"]]
                   /\ UNCHANGED pc
              ELSE /\ pc' = [i |-> pc.i + 1, sub |-> 0]
                   /\ UNCHANGED exc
    /\ UNCHANGED <<env, now, files, step, result, run, nInvoked, calls, locals>>

\* Lines 1110-1111: the tools listing kept at line 1103 must have been a list.
OutlineRequireList ==
    /\ CallerReady
    /\ step.phase = "idle"
    /\ pc.i \in 1..Len(OutlineScript)
    /\ OutlineOp.kind = "require_list"
    /\ IF locals[OutlineOp.var] = "list"
       THEN /\ pc' = [i |-> pc.i + 1, sub |-> 0]
            /\ UNCHANGED exc
       ELSE /\ Raise("StepFailed", [NoDiag EXCEPT !.kind = "uc29_not_a_list"])
            /\ UNCHANGED pc
    /\ UNCHANGED <<env, disk, fsops, now, files, step, result, run, nInvoked, calls, locals>>

OutlineReturns ==
    /\ CallerReady
    /\ step.phase = "idle"
    /\ pc.i = Len(OutlineScript) + 1
    /\ ExitRun(0, <<"logs_dir">>, <<>>)
    /\ UNCHANGED <<env, disk, fsops, now, files, step, result, exc, nInvoked, calls, pc, locals>>

\* The environments of the outline: HF_TOKEN unset, the token cache file absent or not.
OutlineEnvs ==
    [chat_timeout : {None}, think_bin_exists : {TRUE}, local_models : {{}},
     stale_schedule : {FALSE}, hf_token : {None}, token_file : {None, Some("hf_file\n")}]

InitOutline ==
    /\ env \in OutlineEnvs
    /\ now = 0
    /\ files = [p \in {} |-> StreamFile(FALSE)]
    /\ step = IdleStep
    /\ result = NoResult
    /\ exc = NoExc
    /\ run = [status |-> "running", exit_code |-> None, stdout |-> <<>>, stderr |-> <<>>]
    /\ nInvoked = 0
    /\ calls = <<>>
    /\ disk = DiskOf(env)
    /\ fsops = <<>>
    /\ pc = [i |-> 0, sub |-> 0]
    /\ locals = [v \in OutlineVars |-> ""]

NextOutline ==
    \/ MainStart
    \/ OutlineCall
    \/ OutlineReset
    \/ OutlineRequireList
    \/ ProcExit
    \/ ProcTimeout
    \/ WriteLogs
    \/ Classify
    \/ OutlineResume
    \/ OutlineReturns
    \/ CatchStepFailed
    \/ UncaughtException

SpecOutline == InitOutline /\ [][NextOutline]_vars

---------------------------------------------------------------------------
\* The start of main under every state of HF_TOKEN and of the token cache file
\* (lines 375-385), followed by the first steps of the outline.
HfTokens == {None, Some(""), Some("hf_env")}
TokenFiles == {None, Some(""), Some(" \n"), Some("hf_file\n")}

\* How many operations of the outline follow the start.
TokenLastOp == 3

TokenEnvs ==
    [chat_timeout : {None}, think_bin_exists : BOOLEAN, local_models : {{}},
     stale_schedule : {FALSE}, hf_token : HfTokens, token_file : TokenFiles]

TokenCall ==
    /\ pc.i \in 1..TokenLastOp
    /\ OutlineCall

TokenResume ==
    /\ pc.i \in 1..TokenLastOp
    /\ OutlineResume

InitToken ==
    /\ env \in TokenEnvs
    /\ now = 0
    /\ files = [p \in {} |-> StreamFile(FALSE)]
    /\ step = IdleStep
    /\ result = NoResult
    /\ exc = NoExc
    /\ run = [status |-> "running", exit_code |-> None, stdout |-> <<>>, stderr |-> <<>>]
    /\ nInvoked = 0
    /\ calls = <<>>
    /\ disk = DiskOf(env)
    /\ fsops = <<>>
    /\ pc = [i |-> 0, sub |-> 0]
    /\ locals = [v \in OutlineVars |-> ""]

NextToken ==
    \/ MainStart
    \/ TokenCall
    \/ ProcExit
    \/ WriteLogs
    \/ Classify
    \/ TokenResume
    \/ CatchStepFailed
    \/ UncaughtException

SpecToken == InitToken /\ [][NextToken]_vars

---------------------------------------------------------------------------
\* reset_cli_store on its own: a caller holding a store name calls it twice in a row,
\* on any disk over these paths.
StoreNames == {"codex-usecases", "codex-uc27", "legacy.store"}

ResetPaths ==
    {"codex-usecases", "codex-usecases.sqlite", "codex-usecases.store-wal",
     "codex-usecases.json", "codex-uc27.sqlite", "legacy.version",
     "legacy.store.sqlite", "ThinkAI/Models/mlx-community_SmolLM-135M-4bit"}

DiskKinds == {"absent", "file", "locked"}

ResetCall ==
    /\ run.status = "running"
    /\ exc.kind = "none"
    /\ pc.i \in {0, 1}
    /\ LET r == ResetCliStore(locals.store_name, disk)
       IN  /\ disk' = r.disk
           /\ fsops' = fsops \o Stamped(r.ops)
           /\ IF r.raised
              THEN /\ exc' = [kind |-> "OSError",
                              diag |-> [NoDiag EXCEPT !.kind = "reset_failed"]]
                   /\ UNCHANGED <<pc, locals>>
              ELSE /\ pc' = [pc EXCEPT !.i = pc.i + 1]
                   /\ locals' = IF pc.i = 0 THEN [locals EXCEPT !.once = r.disk] ELSE locals
                   /\ UNCHANGED exc
    /\ UNCHANGED <<env, now, files, step, result, run, nInvoked, calls>>

InitReset ==
    /\ env = [chat_timeout |-> None, think_bin_exists |-> TRUE, local_models |-> {},
              stale_schedule |-> FALSE, hf_token |-> None, token_file |-> None]
    /\ now = 0
    /\ files = [p \in {} |-> StreamFile(FALSE)]
    /\ step = IdleStep
    /\ result = NoResult
    /\ exc = NoExc
    /\ run = [status |-> "running", exit_code |-> None, stdout |-> <<>>, stderr |-> <<>>]
    /\ nInvoked = 0
    /\ calls = <<>>
    /\ disk \in [ResetPaths -> DiskKinds]
    /\ fsops = <<>>
    /\ pc = [i |-> 0, sub |-> 0]
    /\ \E n \in StoreNames : locals = [store_name |-> n, before |-> disk, once |-> disk]

NextReset == ResetCall

SpecReset == InitReset /\ [][NextReset]_vars

---------------------------------------------------------------------------
\* run_tool on its own (lines 155-176): one call with a tool and arguments of use case
\* 29 and any allow_fail and timeout_s, made by a caller that has no handler of its own.
StubTools ==
    {[tool |-> "workspace",
      tool_args |-> <<StrField("action", "list"), StrField("path", "."),
                      BoolField("recursive", FALSE)>>],
     [tool |-> "python_exec",
      tool_args |-> <<StrField("code", "print('py_ok')"), IntField("timeout", 10)>>],
     [tool |-> "memory",
      tool_args |-> <<StrField("type", "shortTerm"), StrField("content", "UC29 tool smoke"),
                      StrsField("keywords", <<"uc29", "smoke">>)>>]}

ToolCall ==
    /\ CallerReady
    /\ pc.i = 0
    /\ \E t \in StubTools, allow_fail \in BOOLEAN, timeout_s \in StubTimeouts,
          d \in StubDurations :
          /\ Spawn(RunToolCall(MainCtx, "uc29_tool", t.tool, t.tool_args, allow_fail,
                               timeout_s), d)
          /\ locals' = [tool |-> t.tool, tool_args |-> t.tool_args,
                        allow_fail |-> allow_fail, timeout_s |-> timeout_s, obj |-> ""]
    /\ pc' = [i |-> 1, sub |-> 0]
    /\ UNCHANGED <<env, disk, fsops, now, result, exc, run>>

\* Lines 168-176: _, _, _, obj = run_step(...); return obj
ToolReturns ==
    /\ CallerReady
    /\ step.phase = "returned"
    /\ pc.i = 1
    /\ locals' = [locals EXCEPT !.obj = result.parsed]
    /\ pc' = [i |-> 2, sub |-> 0]
    /\ UNCHANGED <<env, disk, fsops, now, files, step, result, exc, run, nInvoked, calls>>

\* The caller got its value and has nothing left to call: it returns 0.
ToolCallerReturns ==
    /\ CallerReady
    /\ pc.i = 2
    /\ ExitRun(0, <<"logs_dir">>, <<>>)
    /\ UNCHANGED <<env, disk, fsops, now, files, step, result, exc, nInvoked, calls, pc, locals>>

InitTool ==
    /\ env = [chat_timeout |-> None, think_bin_exists |-> TRUE, local_models |-> {},
              stale_schedule |-> FALSE, hf_token |-> None, token_file |-> None]
    /\ now = 0
    /\ files = [p \in {} |-> StreamFile(FALSE)]
    /\ step = IdleStep
    /\ result = NoResult
    /\ exc = NoExc
    /\ run = [status |-> "running", exit_code |-> None, stdout |-> <<>>, stderr |-> <<>>]
    /\ nInvoked = 0
    /\ calls = <<>>
    /\ disk = DiskOf(env)
    /\ fsops = <<>>
    /\ pc = [i |-> 0, sub |-> 0]
    /\ locals = [tool |-> "", tool_args |-> <<>>, allow_fail |-> FALSE, timeout_s |-> None,
                 obj |-> ""]

NextTool ==
    \/ ToolCall
    \/ ProcExit
    \/ ProcTimeout
    \/ WriteLogs
    \/ Classify
    \/ ToolReturns
    \/ ToolCallerReturns
    \/ CatchStepFailed
    \/ UncaughtException

SpecTool == InitTool /\ [][NextTool]_vars

---------------------------------------------------------------------------
\* Use case 20 on its own (lines 890-934): personalities are created, the chat of each
\* is opened, the chats that gave an id are used, a schedule comes and goes, one chat
\* is deleted and then the personalities after the first.

\* How many personalities the loop of line 894 creates in the model (the script
\* creates five).
Uc20Personalities == 3

\* The first items of extra_chats that line 907 loops over: extra_chats[:3].
Uc20ChatSlice == 3

Uc20Pid(i) == "$pid" \o ToString(i)
Uc20Chat(i) == "$c" \o ToString(i)

\* The id the target gives the chat of personality i.
ChatIdOf(i) == "c20chat" \o ToString(i) \o "-0000-4000-8000-000000000000"

\* id[:8] on the ids of the model.
Head8(id) ==
    IF id = UuidPlain THEN "123e4567"
    ELSE IF \E i \in 1..(Uc20Personalities + 1) : id = ChatIdOf(i)
    THEN "c20chat" \o ToString(CHOOSE i \in 1..(Uc20Personalities + 1) : id = ChatIdOf(i))
    ELSE id

ChurnLoopOps ==
    [k \in 1..(2 * Uc20Personalities) |->
        LET i == (k + 1) \div 2
        IN  IF k % 2 = 1
            THEN CreatePersonality(895, "uc20-personality-" \o ToString(i), "productivity",
                                   Uc20Pid(i))
            ELSE ExtractChat(897, "uc20_personality_chat_" \o ToString(i),
                             <<"personality", "chat", Uc20Pid(i), "--format", "json">>,
                             Uc20Chat(i), ChatIdOf(i))]

ChurnChatOps ==
    [k \in 1..(3 * Min(Uc20ChatSlice, Uc20Personalities)) |->
        LET idx == (k + 2) \div 3
        IN  CASE k % 3 = 1 ->
                     ForChat(908, "uc20_chat_get_", <<"chat", "get", "$cid", "--format", "json">>,
                             TRUE, idx)
              [] k % 3 = 2 ->
                     ForChat(909, "uc20_chat_rename_",
                             <<"chat", "rename", "--session", "$cid", "$renamed">>, FALSE, idx)
              [] OTHER ->
                     ForChat(910, "uc20_chat_history_",
                             <<"chat", "history", "--session", "$cid", "--format", "json">>,
                             TRUE, idx)]

ChurnDeleteOps ==
    [k \in 1..(Uc20Personalities - 1) |->
        ForPersonality(932, "uc20_personality_delete_",
                       <<"personality", "delete", Uc20Pid(k + 1)>>, Uc20Pid(k + 1))]

ChurnScript ==
    <<CreateChat(891, "uc20-stress", "$chat20")>>
    \o ChurnLoopOps
    \o <<Step(906, "uc20_chat_list_1", <<"chat", "list", "--format", "json">>, TRUE)>>
    \o ChurnChatOps
    \o <<Step(911, "uc20_schedule_create",
              <<"schedules", "create", "--title", "uc20 temp", "--prompt", "temp", "--cron",
                "*/30 * * * *", "--chat", "$chat20", "--disabled", "--format", "json">>, TRUE),
         ListAndFind(917, "uc20_schedules_list", <<"schedules", "list", "--format", "json">>,
                     "uc20 temp", "$temp_sched_id", 3),
         Step(925, "uc20_schedule_enable", <<"schedules", "enable", "$temp_sched_id">>, FALSE),
         Step(926, "uc20_schedule_disable", <<"schedules", "disable", "$temp_sched_id">>, FALSE),
         Step(927, "uc20_schedule_delete", <<"schedules", "delete", "$temp_sched_id">>, FALSE),
         ForChat(930, "uc20_chat_delete_", <<"chat", "delete", "--session", "$cid">>, FALSE, 1)>>
    \o ChurnDeleteOps
    \o <<Step(933, "uc20_chat_list_2", <<"chat", "list", "--format", "json">>, TRUE)>>

ChurnVars ==
    {"$chat20", "$temp_sched_id"}
        \cup {Uc20Pid(i) : i \in 1..Uc20Personalities}
        \cup {Uc20Chat(i) : i \in 1..Uc20Personalities}

ChurnOp == ChurnScript[pc.i]

\* extra_chats: the chat ids that were read out, in the order of the personalities.
NonEmpty(x) == x # ""

ExtraChats == SelectSeq([i \in 1..Uc20Personalities |-> locals[Uc20Chat(i)]], NonEmpty)

\* The loop the operation belongs to has no item at the operation's position.
NoSuchChat(op) == op.kind = "for_chat" /\ Len(ExtraChats) < op.idx

\* The run_step call of an operation of the script.
ChurnCallOf(op) ==
    IF op.kind = "for_chat"
    THEN LET cid == ExtraChats[op.idx]
         IN  [ctx |-> MainCtx, name |-> op.name \o Head8(cid),
              args |-> [k \in 1..Len(op.args) |->
                           IF op.args[k] = "$cid" THEN cid
                           ELSE IF op.args[k] = "$renamed"
                           THEN "uc20-renamed-" \o Head8(cid)
                           ELSE op.args[k]],
              json_output |-> op.json_output, allow_fail |-> FALSE, timeout_s |-> None]
    ELSE IF op.kind = "for_personality"
    THEN [ctx |-> MainCtx, name |-> op.name \o Head8(locals[op.var]),
          args |-> ResolveArgs(op.args), json_output |-> FALSE, allow_fail |-> FALSE,
          timeout_s |-> None]
    ELSE OpCall(op, pc.sub)

ChurnCall ==
    /\ CallerReady
    /\ step.phase = "idle"
    /\ pc.i \in 1..Len(ChurnScript)
    /\ ~NoSuchChat(ChurnOp)
    /\ Spawn(ChurnCallOf(ChurnOp), 1)
    /\ UNCHANGED <<env, disk, fsops, now, result, exc, run, pc, locals>>

\* The loop over extra_chats[:3], or the `if extra_chats`, has nothing to do here.
ChurnSkip ==
    /\ CallerReady
    /\ step.phase = "idle"
    /\ pc.i \in 1..Len(ChurnScript)
    /\ NoSuchChat(ChurnOp)
    /\ pc' = [i |-> pc.i + 1, sub |-> 0]
    /\ UNCHANGED <<env, disk, fsops, now, files, step, result, exc, run, nInvoked, calls,
                   locals>>

ChurnResume ==
    /\ run.status = "running"
    /\ exc.kind = "none"
    /\ step.phase = "returned"
    /\ pc.i \in 1..Len(ChurnScript)
    /\ step' = IdleStep
    /\ result' = NoResult
    /\ ResumeOp(ChurnOp)
    /\ UNCHANGED <<env, disk, fsops, now, files, run, nInvoked, calls>>

ChurnReturns ==
    /\ CallerReady
    /\ step.phase = "idle"
    /\ pc.i = Len(ChurnScript) + 1
    /\ ExitRun(0, <<"logs_dir">>, <<>>)
    /\ UNCHANGED <<env, disk, fsops, now, files, step, result, exc, nInvoked, calls, pc, locals>>

InitChurn ==
    /\ env = [chat_timeout |-> None, think_bin_exists |-> TRUE, local_models |-> {},
              stale_schedule |-> FALSE, hf_token |-> None, token_file |-> None]
    /\ now = 0
    /\ files = [p \in {} |-> StreamFile(FALSE)]
    /\ step = IdleStep
    /\ result = NoResult
    /\ exc = NoExc
    /\ run = [status |-> "running", exit_code |-> None, stdout |-> <<>>, stderr |-> <<>>]
    /\ nInvoked = 0
    /\ calls = <<>>
    /\ disk = DiskOf(env)
    /\ fsops = <<>>
    /\ pc = [i |-> 1, sub |-> 0]
    /\ locals = [v \in ChurnVars |-> ""]

NextChurn ==
    \/ ChurnCall
    \/ ChurnSkip
    \/ ProcExit
    \/ WriteLogs
    \/ Classify
    \/ ChurnResume
    \/ ChurnReturns
    \/ CatchStepFailed

SpecChurn == InitChurn /\ [][NextChurn]_vars

---------------------------------------------------------------------------
\* The line parser of use case 28 on its own: the json-lines step has returned exit
\* code 0 with some output, and main goes through lines 1088-1100 once.
MaxLineText == 5

LinePieces == JsonPieces \cup {"\n", " ", "progress"}

LineTexts == UNION {[1..n -> LinePieces] : n \in 0..MaxLineText}

CheckLines ==
    /\ run.status = "running"
    /\ exc.kind = "none"
    /\ pc.i = 0
    /\ LET parsed_lines == ParsedLines(locals.out)
       IN  /\ locals' = [locals EXCEPT !.parsed_lines = parsed_lines]
           /\ IF parsed_lines < 1
              THEN /\ Raise("StepFailed", [NoDiag EXCEPT !.kind = "uc28_no_lines"])
                   /\ UNCHANGED pc
              ELSE /\ pc' = [pc EXCEPT !.i = 1]
                   /\ UNCHANGED exc
    /\ UNCHANGED <<env, disk, fsops, now, files, step, result, run, nInvoked, calls>>

InitLines ==
    /\ env = [chat_timeout |-> None, think_bin_exists |-> TRUE, local_models |-> {},
              stale_schedule |-> FALSE, hf_token |-> None, token_file |-> None]
    /\ now = 0
    /\ files = [p \in {} |-> StreamFile(FALSE)]
    /\ step = IdleStep
    /\ result = NoResult
    /\ exc = NoExc
    /\ run = [status |-> "running", exit_code |-> None, stdout |-> <<>>, stderr |-> <<>>]
    /\ nInvoked = 0
    /\ calls = <<>>
    /\ disk = DiskOf(env)
    /\ fsops = <<>>
    /\ pc = [i |-> 0, sub |-> 0]
    /\ \E t \in LineTexts : locals = [out |-> t, parsed_lines |-> 0]

NextLines == CheckLines

SpecLines == InitLines /\ [][NextLines]_vars

---------------------------------------------------------------------------
\* _extract_uuid on its own: a caller holding a message applies it once.
MaxTextLen == 5

Pieces == {" ", "Created", "skill", UuidPlain, UuidBraced}

Messages == UNION {[1..n -> Pieces] : n \in 0..MaxTextLen}

ExtractCall ==
    /\ pc.i = 0
    /\ locals' = [locals EXCEPT !.id = ExtractUuid(locals.message)]
    /\ pc' = [i |-> 1, sub |-> 0]
    /\ UNCHANGED <<env, disk, fsops, now, files, step, result, exc, run, nInvoked, calls>>

InitUuid ==
    /\ env = [chat_timeout |-> None, think_bin_exists |-> TRUE, local_models |-> {},
              stale_schedule |-> FALSE, hf_token |-> None, token_file |-> None]
    /\ now = 0
    /\ files = [p \in {} |-> StreamFile(FALSE)]
    /\ step = IdleStep
    /\ result = NoResult
    /\ exc = NoExc
    /\ run = [status |-> "running", exit_code |-> None, stdout |-> <<>>, stderr |-> <<>>]
    /\ nInvoked = 0
    /\ calls = <<>>
    /\ disk = DiskOf(env)
    /\ fsops = <<>>
    /\ pc = [i |-> 0, sub |-> 0]
    /\ \E m \in Messages : locals = [message |-> m, id |-> None]

NextUuid == ExtractCall

SpecUuid == InitUuid /\ [][NextUuid]_vars

---------------------------------------------------------------------------
\* Vocabulary of the properties below.

\* run_step has come to its end: it returned, raised StepFailed, or let the
\* TimeoutExpired of subprocess.run through.
Returned == step.phase = "returned"
RaisedStepFailed == step.phase = "raised"
Killed == step.phase = "killed"
Ended == Returned \/ RaisedStepFailed \/ Killed

\* The process exited on its own with a non-zero code.
ExitedNonZero ==
    /\ step.phase \in {"exited", "logged", "raised", "returned"}
    /\ Get(step.rc) # 0

StepFiles == {Path(step.prefix, ext) : ext \in {"out.txt", "err.txt", "meta.json"}}

\* The argv holds the adjacent tokens chat, send.
HasChatSend(argv) ==
    \E i \in 1..Len(argv) : i < Len(argv) /\ SubSeq(argv, i, i + 1) = <<"chat", "send">>

\* Stdout is not a JSON text.
NotJson(text) == text.body \in {"noise", "empty", "Already Downloaded"}

---------------------------------------------------------------------------
\* C1: whenever the target process exits on its own with a non-zero code (allow_fail
\* and json_output either way), the step's .meta.json is on disk with exit_code equal
\* to the process's exit code by the time run_step raises StepFailed or returns.
C1_MetaWrittenOnNonZeroExit ==
    (ExitedNonZero /\ (Returned \/ RaisedStepFailed)) =>
        /\ Path(step.prefix, "meta.json") \in DOMAIN files
        /\ files[Path(step.prefix, "meta.json")].exit_code = Get(step.rc)
        /\ files[Path(step.prefix, "meta.json")].name = step.call.name

C1_Witness ==
    /\ RaisedStepFailed
    /\ ExitedNonZero
    /\ exc.diag.kind = "exit"
    /\ ~step.call.json_output
    /\ files[Path(step.prefix, "meta.json")].exit_code = 2

\* C2: for every outcome of a run_step invocation (zero exit, non-zero exit,
\* unparseable JSON, the process exceeding its timeout) the three per-step files
\* .out.txt, .err.txt and .meta.json have been written when run_step returns or raises.
C2_ThreeFilesWhateverTheOutcome ==
    Ended => StepFiles \subseteq DOMAIN files

\* C3: for every argv (chat send included) and every explicitly passed
\* timeout_s <= 0, no timeout is enforced: the process is never killed.
C3_NonPositiveTimeoutNeverKills ==
    (step.phase # "idle" /\ ~IsNone(step.call.timeout_s) /\ Get(step.call.timeout_s) <= 0) =>
        ~Killed

\* C4: the effective timeout. A positive explicit timeout_s is used unchanged; with
\* no timeout_s, an argv holding the adjacent tokens chat, send gets the configured
\* default (THINK_UC_CHAT_TIMEOUT_S, 1800 when unset) when that is positive and no
\* timeout when it is zero; any other argv gets no timeout. The process is killed
\* exactly when it needs longer than that timeout.
C4_Expected(call) ==
    LET configured == IF IsNone(env.chat_timeout) THEN 1800 ELSE Get(env.chat_timeout)
    IN  IF ~IsNone(call.timeout_s) THEN call.timeout_s
        ELSE IF HasChatSend(call.args) /\ configured > 0 THEN Some(configured)
        ELSE None

C4_EffectiveTimeout ==
    (/\ step.phase # "idle"
     /\ IsNone(step.call.timeout_s) \/ Get(step.call.timeout_s) > 0
     /\ IsNone(step.call.timeout_s) /\ HasChatSend(step.call.args)
            => IsNone(env.chat_timeout) \/ Get(env.chat_timeout) >= 0) =>
        LET t == C4_Expected(step.call)
        IN  /\ step.eff = t
            /\ Killed => ~IsNone(t) /\ step.dur > Get(t)
            /\ step.phase \in {"exited", "logged", "raised", "returned"} =>
                   IsNone(t) \/ step.dur <= Get(t)

C4_Witness ==
    /\ Killed
    /\ IsNone(step.call.timeout_s)
    /\ step.call.args = <<"--tool-access", "deny", "chat", "send">>
    /\ IsNone(env.chat_timeout)
    /\ step.eff = Some(1800)

\* C5: once a run_step call with allow_fail=false has seen a non-zero exit, it raises,
\* no later step is ever invoked (neither in that scenario, its cleanup deletions
\* included, nor in a later one), and the run ends with a non-zero exit code.
FailedExitSeen == ExitedNonZero /\ ~step.call.allow_fail

C5_NoStepAfterFailedExit ==
    /\ [](FailedExitSeen => ~Returned)
    /\ [](FailedExitSeen /\ RaisedStepFailed /\ run.status = "running"
              => ENABLED CatchStepFailed)
    /\ [](FailedExitSeen /\ run.status = "exited" => run.exit_code = Some(1))
    /\ [][FailedExitSeen => FailedExitSeen' /\ nInvoked' = nInvoked /\ pc' = pc
                               /\ locals' = locals]_vars

\* gateway_start_once fails after use case 1 has indexed its two entries: the run
\* ends with neither of them deleted.
C5_Witness ==
    /\ FailedExitSeen
    /\ run.status = "exited"
    /\ step.call.name = "gateway_start_once"
    /\ locals["$ids_uc1_0"] # "" /\ locals["$ids_uc1_1"] # ""
    /\ nInvoked < 16

\* C6: every run_step invocation with allow_fail=false whose process exits non-zero
\* (json_output either way, whatever stdout holds) raises a StepFailed whose
\* diagnostic carries the step name, the shell-quoted command, stdout and stderr each
\* cut to 5000 characters, and the exit code.
C6_ExitFailureDiagnostic ==
    (FailedExitSeen /\ Ended) =>
        /\ RaisedStepFailed
        /\ exc.kind = "StepFailed"
        /\ exc.diag.name = step.call.name
        /\ exc.diag.cmd = step.safe_cmd
        /\ exc.diag.stdout.len = Min(step.stdout.len, 5000)
        /\ exc.diag.stderr.len = Min(step.stderr.len, 5000)
        /\ exc.diag.exit_code = step.rc

\* C7: with json_output=true and stdout that is not parseable JSON, run_step raises a
\* StepFailed describing the parse error when allow_fail=false, also on exit code 0,
\* and returns normally with parsed value None when allow_fail=true.
C7_ParseFailure ==
    (step.phase \in {"raised", "returned"} /\ step.call.json_output /\ NotJson(step.stdout)) =>
        IF step.call.allow_fail
        THEN Returned /\ result.parsed = "None" /\ exc.kind = "none"
        ELSE RaisedStepFailed /\ exc.kind = "StepFailed" /\ exc.diag.kind = "parse"

C7_Witness ==
    /\ RaisedStepFailed
    /\ step.call.json_output
    /\ NotJson(step.stdout)
    /\ step.rc = Some(0)
    /\ exc.diag.kind = "parse"

\* C8: a step whose process exceeds its effective timeout always raises out of
\* run_step, with allow_fail=true as with allow_fail=false: no result reaches the
\* caller and the run does not go on past it.
TimeoutExceeded ==
    /\ step.phase \notin {"idle", "running"}
    /\ ~IsNone(step.eff)
    /\ step.dur > Get(step.eff)

C8_TimeoutAlwaysRaises ==
    /\ [](TimeoutExceeded =>
              /\ Killed
              /\ exc.kind \notin {"none"}
              /\ result = NoResult
              /\ run.status = "exited" => run.exit_code = Some(1))
    /\ [][TimeoutExceeded => TimeoutExceeded' /\ nInvoked' = nInvoked /\ pc' = pc
                                /\ result' = result]_vars

C8_Witness ==
    /\ TimeoutExceeded
    /\ step.call.allow_fail
    /\ step.call.name = "chat_send_uc3_expect_denied"
    /\ run.status = "exited"

\* C9: every fatal condition of a run (non-zero exit, JSON parse failure, timeout,
\* id-resolution failure, all fallback candidates failing) is raised as the one error
\* kind StepFailed and caught by the entry point alone, which prints the message to
\* stderr and exits non-zero.
C9_FatalIsStepFailed ==
    /\ (Killed \/ RaisedStepFailed) => exc.kind = "StepFailed"
    /\ exc.diag.kind \in {"no_chat_id", "all_candidates_failed"} => exc.kind = "StepFailed"
    /\ (exc.kind = "StepFailed" /\ run.status = "exited") =>
           run.exit_code = Some(1) /\ run.stderr = <<exc.diag>>

\* C10: whenever run_step with allow_fail=true tolerates a failure (non-zero exit, or
\* unparseable JSON with json_output=true), the result it returns is the sentinel: a
\* non-zero exit code together with a None parsed value.
Tolerated ==
    /\ Returned
    /\ step.call.allow_fail
    /\ Get(step.rc) # 0 \/ (step.call.json_output /\ NotJson(step.stdout))

C10_SentinelResult ==
    Tolerated => Get(result.rc) # 0 /\ result.parsed = "None"

\* C10 as amended: the result of a tolerated failure is the raw one. It carries the
\* process's exit code, stdout and stderr unchanged and the value json.loads gave
\* (None when json_output is false, stdout does not parse, or stdout is null), so the
\* exit code is non-zero or the parsed value is None, not always both.
C10_RawResult ==
    Tolerated =>
        /\ result.rc = step.rc
        /\ result.stdout = step.stdout
        /\ result.stderr = step.stderr
        /\ result.parsed = "None" <=>
               (~step.call.json_output \/ NotJson(step.stdout) \/ step.stdout.body = "null")
        /\ Get(result.rc) # 0 \/ result.parsed = "None"

C10_Witness ==
    /\ Tolerated
    /\ result.rc = Some(0)
    /\ result.parsed = "None"
    /\ step.call.json_output

---------------------------------------------------------------------------
\* Every operation of the script has been carried out.
AllScenariosDone == pc.i = LastOp + 1 /\ exc.kind = "none"

\* C11: the run writes the log-directory path to stdout if and only if every scenario
\* completed, and then exits 0; on any unrecovered failure (StepFailed, timeout,
\* missing binary) it exits 1 having written nothing to stdout.
C11_StdoutIffSuccess ==
    /\ run.status = "running" => run.stdout = <<>>
    /\ run.status = "exited" =>
          /\ run.stdout \in {<<>>, <<"logs_dir">>}
          /\ run.stdout = <<"logs_dir">> <=> AllScenariosDone
          /\ AllScenariosDone => run.exit_code = Some(0)
          /\ ~AllScenariosDone =>
                /\ exc.kind \in {"StepFailed", "TimeoutExpired", "SystemExit"}
                /\ run.exit_code = Some(1)
                /\ run.stdout = <<>>

C11_Witness ==
    /\ run.status = "exited"
    /\ exc.kind = "TimeoutExpired"
    /\ run.exit_code = Some(1)
    /\ run.stdout = <<>>
    /\ nInvoked > 1

\* C12: on every fatal failure of a run, the diagnostic written to stderr holds the
\* name of the failing step, the shell-quoted command that was invoked and the step's
\* stdout and stderr in truncated form.
C12_DiagnosticNamesStepAndCommand ==
    (run.status = "exited" /\ exc.kind = "StepFailed") =>
        /\ Len(run.stderr) = 1
        /\ run.stderr[1].name # ""
        /\ run.stderr[1].cmd # <<>>

---------------------------------------------------------------------------
\* The model selector: the two selections main makes, and what the run has issued
\* for each.
Selections == {MainScript[4], MainScript[5]}

IsDownload(c) == Len(c.args) = 5 /\ c.args[1] = "models" /\ c.args[2] = "download"

\* The acquisition steps issued so far for the candidates of a selection, in order.
DownloadsOf(cands) ==
    LET mine(c) == IsDownload(c) /\ \E k \in 1..Len(cands) : cands[k].repo = c.args[3]
    IN  SelectSeq(calls, mine)

\* The candidates of a selection whose model directory is there.
LocalOf(cands) == {k \in 1..Len(cands) : cands[k].flat \in env.local_models}

\* The result of an acquisition step is an accepting one: exit code 0, or the marker
\* in either stream, in whatever case.
Accepting(res) ==
    \/ Get(res.rc) = 0
    \/ res.stdout.body \in {"Already Downloaded", "already downloaded"}
    \/ res.stderr.body \in {"Already Downloaded", "already downloaded"}

\* The selector takes up the result of an acquisition step.
SelectorResumes ==
    /\ pc.i \in 1..LastOp
    /\ CurOp.kind = "ensure"
    /\ step.phase = "returned"
    /\ step'.phase = "idle"

\* C13: pick_first_working_model_download issues acquisition steps strictly in list
\* order, each candidate at most once; it returns the first candidate whose step exits
\* 0 or prints 'already downloaded' (in any case) on stdout or stderr, and issues no
\* step for a candidate after the accepted one.
C13_FirstWorkingInOrder ==
    /\ [](\A e \in Selections :
            LET d == DownloadsOf(e.candidates)
            IN  /\ Len(d) <= Len(e.candidates)
                /\ \A k \in 1..Len(d) :
                      d[k].args = <<"models", "download", e.candidates[k].repo,
                                    "--backend", e.candidates[k].backend>>
                /\ (locals[e.var] # "" /\ d # <<>>) =>
                      locals[e.var] = e.candidates[Len(d)].repo)
    /\ [][SelectorResumes =>
            IF Accepting(result)
            THEN /\ locals'[CurOp.var] = CurOp.candidates[pc.sub].repo
                 /\ pc'.i = pc.i + 1
                 /\ exc' = exc
            ELSE /\ locals' = locals
                 /\ pc'.i = pc.i
                 /\ \/ pc'.sub = pc.sub + 1 /\ exc' = exc
                    \/ pc.sub = Len(CurOp.candidates) /\ exc'.kind = "StepFailed"]_vars

\* The second candidate is accepted on the marker alone, after the first failed.
C13_Witness ==
    /\ locals["$lang_repo"] = LanguageCandidates[2].repo
    /\ Len(DownloadsOf(LanguageCandidates)) = 2
    /\ \E p \in DOMAIN files :
          /\ "exit_code" \in DOMAIN files[p]
          /\ files[p].name = "models_download_" \o LanguageCandidates[2].flat
          /\ files[p].exit_code = 2
    /\ pc.i > 5

\* C14: ensure_language_model / ensure_diffusion_model: when the model directory of
\* some candidate exists locally, the first such candidate in list order is returned
\* and no acquisition step is issued for any candidate; acquisition steps are issued
\* only when no candidate exists locally.
C14_LocalFirstNoAcquisition ==
    \A i \in {4, 5} :
        LET e == MainScript[i]
            have == LocalOf(e.candidates)
        IN  /\ have # {} => DownloadsOf(e.candidates) = <<>>
            /\ (have # {} /\ pc.i > i) =>
                  locals[e.var] = e.candidates[CHOOSE k \in have : \A j \in have : k <= j].repo
            /\ DownloadsOf(e.candidates) # <<>> => have = {}

C14_Witness ==
    /\ LocalOf(LanguageCandidates) = {2, 3}
    /\ locals["$lang_repo"] = LanguageCandidates[2].repo
    /\ DownloadsOf(LanguageCandidates) = <<>>
    /\ DownloadsOf(DiffusionCandidates) # <<>>
    /\ pc.i > 5

\* C15: when every candidate's acquisition step fails (non-zero exit, no marker), the
\* selector raises StepFailed after having tried every candidate exactly once, and the
\* message carries the last candidate's error cut to 2000 characters.
AllCandidatesFailed == exc.diag.kind = "all_candidates_failed"

C15_AllFailedRaises ==
    /\ [](AllCandidatesFailed =>
            LET d == DownloadsOf(CurOp.candidates)
            IN  /\ exc.kind = "StepFailed"
                /\ Len(d) = Len(CurOp.candidates)
                /\ \A k \in 1..Len(d) : d[k].args[3] = CurOp.candidates[k].repo
                /\ exc.diag.stderr.len <= 2000)
    /\ [][(~AllCandidatesFailed /\ AllCandidatesFailed') =>
            /\ step.call = DownloadCall(CurOp.candidates[Len(CurOp.candidates)])
            /\ ~Accepting(result)
            /\ exc'.diag.exit_code = step.rc
            /\ exc'.diag.stderr.body = step.stderr.body
            /\ exc'.diag.stderr.len = Min(step.stderr.len, 2000)]_vars
    /\ [][(SelectorResumes /\ ~Accepting(result) /\ pc.sub = Len(CurOp.candidates)) =>
            AllCandidatesFailed']_vars

C15_Witness ==
    /\ AllCandidatesFailed
    /\ pc.i = 4
    /\ Len(DownloadsOf(LanguageCandidates)) = 3
    /\ exc.diag.stderr.len = 2000
    /\ run.status = "exited"

---------------------------------------------------------------------------
\* C18: _extract_uuid returns, unchanged, the last whitespace-delimited token of the
\* text that parses as a UUID and None when no token parses; for
\* 'Created skill <uuid>' it returns exactly <uuid>.
C18_LastUuidToken ==
    pc.i = 1 =>
        LET toks == Split(locals.message)
            hits == {k \in 1..Len(toks) : toks[k] \in {UuidPlain, UuidBraced}}
        IN  /\ hits = {} => locals.id = None
            /\ hits # {} => locals.id = Some(toks[CHOOSE k \in hits : \A j \in hits : j <= k])
            /\ locals.message = <<"Created", " ", "skill", " ", UuidPlain>> =>
                  locals.id = Some(UuidPlain)

\* Two tokens parse; the later one, braces and all, is what comes back.
C18_Witness ==
    /\ pc.i = 1
    /\ locals.message = <<UuidPlain, " ", UuidBraced, " ", "skill">>
    /\ locals.id = Some(UuidBraced)

---------------------------------------------------------------------------
\* What the run created in the store so far: the index entries whose ids it chose,
\* and the schedule the target filed for its schedules-create step.
IsRagIndex(c) == Len(c.args) >= 6 /\ c.args[1] = "rag" /\ c.args[2] = "index"
IsRagDelete(c) == Len(c.args) = 5 /\ c.args[1] = "rag" /\ c.args[2] = "delete"
IsScheduleCreate(c) == Len(c.args) >= 2 /\ c.args[1] = "schedules" /\ c.args[2] = "create"
IsScheduleDelete(c) == Len(c.args) = 3 /\ c.args[1] = "schedules" /\ c.args[2] = "delete"

CreatedByRun ==
    {calls[k].args[6] : k \in {j \in 1..Len(calls) : IsRagIndex(calls[j])}}
        \cup (IF \E k \in 1..Len(calls) : IsScheduleCreate(calls[k])
              THEN {"SCHED-NEW"} ELSE {})

\* C19: every rag-delete and schedules-delete step a run issues targets the id of an
\* entity this same run created, whatever the store holds (also a same-titled
\* schedule of an earlier run that the best-effort reset did not remove).
C19_DeletesOnlyOwnEntities ==
    \A k \in 1..Len(calls) :
        /\ IsRagDelete(calls[k]) => calls[k].args[5] \in CreatedByRun
        /\ IsScheduleDelete(calls[k]) => calls[k].args[3] \in CreatedByRun

---------------------------------------------------------------------------
\* The helper the caller is in, and what its last response gave.
InHelper == pc.i \in 1..Len(HelperScript)

HelperOp == HelperScript[pc.i]

\* The helper takes up the response of its create step, or of its list step.
TakesCreateResponse == InHelper /\ pc.sub = 0 /\ step.phase = "returned" /\ step'.phase = "idle"
TakesListResponse == InHelper /\ pc.sub = 1 /\ step.phase = "returned" /\ step'.phase = "idle"

\* The create response yields an identifier: an id field for a chat, a message ending
\* in a UUID for a skill or a personality.
CreateYieldsId ==
    IF HelperOp.kind = "create_chat" THEN result.parsed = "dict_id"
    ELSE result.parsed = "dict_msg_uuid"

\* The listing's first entry of the requested name carries a usable id.
ListYieldsId == result.parsed = "list_hit"

\* C16: for each of create_chat, create_skill and create_personality, when the create
\* response yields no identifier the helper issues a list step for the same entity
\* kind and returns the id of the first listed entry whose name is the requested one.
C16_ListFallbackForEveryHelper ==
    /\ [][(TakesCreateResponse /\ ~CreateYieldsId) =>
            /\ exc' = exc
            /\ pc' = [i |-> pc.i, sub |-> 1]]_vars
    /\ [][(InHelper /\ pc.sub = 1 /\ step.phase = "idle" /\ step'.phase = "running") =>
            step'.call.args = <<HelperOp.args[1], "list", "--format", "json">>]_vars
    /\ [][(TakesListResponse /\ ListYieldsId) =>
            /\ locals'[HelperOp.var] = "LIST-1"
            /\ pc'.i = pc.i + 1]_vars

\* C17: no entity helper ever returns an empty or absent id: when neither the create
\* response nor the list fallback yields one, the helper raises StepFailed and the run
\* aborts.
C17_NoEmptyId ==
    /\ [](\A i \in 1..Len(HelperScript) : pc.i > i => locals[HelperScript[i].var] # "")
    /\ [][(TakesListResponse /\ ~ListYieldsId) =>
            exc'.kind = "StepFailed" /\ pc' = pc /\ locals' = locals]_vars
    /\ [][(TakesCreateResponse /\ ~CreateYieldsId /\ HelperOp.kind = "create_chat") =>
            exc'.kind = "StepFailed" /\ pc' = pc /\ locals' = locals]_vars
    /\ [][exc.kind = "StepFailed" => calls' = calls /\ pc' = pc /\ locals' = locals]_vars
    /\ [](exc.kind = "StepFailed" /\ run.status = "exited" => run.exit_code = Some(1))

\* Neither the create response nor the personality listing gave an id: the helper
\* raised, nothing was returned to the caller, and the run ended with exit code 1.
C17_Witness ==
    /\ exc.kind = "StepFailed"
    /\ exc.diag.kind = "no_id"
    /\ Len(calls) > 0
    /\ calls[Len(calls)].name = "personality_list"
    /\ pc.i = 3
    /\ locals["$p_opt"] = ""
    /\ run.status = "exited"
    /\ run.exit_code = Some(1)

\* C20: within one run directory no two run_step invocations use the same log-file
\* prefix, so the out/err/meta paths of distinct invocations are pairwise distinct and
\* a Step Record is never overwritten (also for step names that recur in a run).
C20_PrefixesDistinct ==
    \A i, j \in 1..Len(calls) : i # j => calls[i].prefix # calls[j].prefix

---------------------------------------------------------------------------
\* The scenarios of the script that index content: the variable holding the
\* scenario's chat, and the last operation of the scenario.
IndexingScenarios == {"$chat1", "$chat2"}

Mentions(op, v) == op.var = v \/ \E k \in 1..Len(op.args) : op.args[k] = v

ScenarioEnd ==
    [chatVar \in IndexingScenarios |->
        CHOOSE i \in 1..Len(MainScript) :
            /\ Mentions(MainScript[i], chatVar)
            /\ \A j \in 1..Len(MainScript) : Mentions(MainScript[j], chatVar) => j <= i]

\* The scenario's last operation has returned.
ScenarioCompleted(chatVar) == pc.i > ScenarioEnd[chatVar]

\* The index steps issued for a chat, and the delete steps issued for an entry.
IndexStepsOf(chat) ==
    {k \in 1..Len(calls) : IsRagIndex(calls[k]) /\ calls[k].args[4] = chat}

DeleteStepsOf(chat, content_id) ==
    {j \in 1..Len(calls) :
        IsRagDelete(calls[j]) /\ calls[j].args[4] = chat /\ calls[j].args[5] = content_id}

\* C21: at the end of every scenario that completes, every index entry the scenario
\* created through rag_index_file_for_chat / rag_index_text_for_chat has been deleted
\* by exactly one rag_delete_for_chat with the same chat id and content id, issued
\* after that entry's index step.
C21_IndexEntriesDeleted ==
    \A v \in IndexingScenarios :
        ScenarioCompleted(v) =>
            \A k \in IndexStepsOf(locals[v]) :
                LET dels == DeleteStepsOf(locals[v], calls[k].args[6])
                IN  /\ Cardinality(dels) = 1
                    /\ \A j \in dels : j > k

\* Both indexing scenarios completed: four entries indexed, four deleted.
C21_Witness ==
    /\ \A v \in IndexingScenarios : ScenarioCompleted(v)
    /\ Cardinality(IndexStepsOf(locals["$chat1"])) = 2
    /\ Cardinality(IndexStepsOf(locals["$chat2"])) = 2
    /\ Cardinality({j \in 1..Len(calls) : IsRagDelete(calls[j])}) = 4

---------------------------------------------------------------------------
\* The schedule scenario of use case 5: where its listing is in the script, and the
\* three steps that depend on the id found.
SchedListOp == CHOOSE i \in 1..Len(MainScript) : MainScript[i].kind = "list_find"

SchedVerbs == <<"enable", "disable", "delete">>

IsScheduleAct(c) ==
    Len(c.args) = 3 /\ c.args[1] = "schedules" /\ \E k \in 1..3 : c.args[2] = SchedVerbs[k]

\* The entries of a listing that carry the title with a non-empty id, by position.
TitledWithId(entries, title) ==
    {k \in 1..Len(entries) :
        /\ entries[k].name = title
        /\ ~IsNone(entries[k].id)
        /\ Get(entries[k].id) # ""}

\* The caller takes up the listing of schedules.
TakesSchedListing ==
    /\ pc.i = SchedListOp
    /\ step.phase = "returned"
    /\ step'.phase = "idle"

\* The schedule steps issued so far, in order.
ScheduleActs == SelectSeq(calls, IsScheduleAct)

---------------------------------------------------------------------------
\* C23: reset_cli_store never raises, whatever files exist and whichever deletions
\* fail; and calling it twice in a row leaves the filesystem in the same state as
\* calling it once.
C23_ResetNeverRaisesIdempotent ==
    /\ exc.kind = "none"
    /\ pc.i = 2 => disk = locals.once
    /\ \A k \in 1..Len(fsops) : fsops[k].op = "unlink"

\* Both calls returned on a disk where one unlink went through and another failed.
C23_Witness ==
    /\ pc.i = 2
    /\ exc.kind = "none"
    /\ \E k \in 1..Len(fsops) : fsops[k].ok
    /\ \E k \in 1..Len(fsops) : ~fsops[k].ok
    /\ disk # locals.before

\* The paths the reset of a store may touch: the store name, a trailing ".store"
\* taken off, followed by one of the ten endings.
MayTouch(store_name) ==
    LET base == IF store_name = "legacy.store" THEN "legacy" ELSE store_name
    IN  {base \o ".version", base, base \o ".sqlite", base \o ".sqlite-wal",
         base \o ".sqlite-shm", base \o ".store", base \o ".store-wal",
         base \o ".store-shm", base \o ".store.store-wal", base \o ".store.store-shm"}

\* C24: reset_cli_store removes only files at its fixed set of candidate paths derived
\* from the store name (a trailing '.store' stripped) under the application-support
\* root; every other path, in particular everything under the Models root, is left
\* unchanged.
C24_ResetTouchesOnlyCandidates ==
    /\ \A p \in DOMAIN disk :
          disk[p] # locals.before[p] =>
              /\ p \in MayTouch(locals.store_name)
              /\ locals.before[p] = "file"
              /\ disk[p] = "absent"
    /\ \A k \in 1..Len(fsops) : fsops[k].path \in MayTouch(locals.store_name)
    /\ disk["ThinkAI/Models/mlx-community_SmolLM-135M-4bit"] =
           locals.before["ThinkAI/Models/mlx-community_SmolLM-135M-4bit"]

\* The store named with a trailing ".store" was reset: its version file is gone while
\* the model, the other stores' files and a file that only looks like a candidate stay.
C24_Witness ==
    /\ pc.i >= 1
    /\ locals.store_name = "legacy.store"
    /\ locals.before["legacy.version"] = "file"
    /\ disk["legacy.version"] = "absent"
    /\ disk["legacy.store.sqlite"] = "file"
    /\ disk["codex-usecases.sqlite"] = "file"
    /\ disk["ThinkAI/Models/mlx-community_SmolLM-135M-4bit"] = "file"

---------------------------------------------------------------------------
\* The store a step was invoked against: the word after "--store" in its command.
StoreOfCall(k) == calls[k].cmd[3]

\* The files of a store that the run found on the disk.
CandidatePaths ==
    [s \in StoreNames |-> {Candidates(s)[c] : c \in 1..Len(CandidateSuffixes)}]

FoundFiles(store_name) == {p \in CandidatePaths[store_name] : Exists(DiskOf(env), p)}

\* Some step was invoked against the store.
Used(store_name) == \E k \in 1..Len(calls) : StoreOfCall(k) = store_name

\* The first k for which step k was invoked against the store.
FirstCallOn(store_name) ==
    CHOOSE k \in 1..Len(calls) :
        /\ StoreOfCall(k) = store_name
        /\ \A j \in 1..(k - 1) : StoreOfCall(j) # store_name

\* C25: in every run the reset of a store has completed before the first step is
\* invoked against that store: every file of the store that the run found was
\* unlinked (or the unlink was tried) at a point where fewer steps had been invoked;
\* the first step of the run is doctor_pre, after the reset of the main store, and the
\* first step against 'codex-uc27' is uc27_store_path.
C25_ResetBeforeFirstStep ==
    /\ \A s \in StoreNames :
          Used(s) =>
              \A p \in FoundFiles(s) :
                  \E j \in 1..Len(fsops) :
                      /\ fsops[j].op = "unlink"
                      /\ fsops[j].path = p
                      /\ fsops[j].at < FirstCallOn(s)
    /\ Len(calls) >= 1 =>
          /\ calls[1].name = "doctor_pre"
          /\ StoreOfCall(1) = "codex-usecases"
          /\ disk["codex-usecases.sqlite"] = "absent"
    /\ Used("codex-uc27") =>
          /\ calls[FirstCallOn("codex-uc27")].name = "uc27_store_path"
          /\ disk["codex-uc27.sqlite"] = "absent"

\* Both stores were reset and used: uc27_store_path was invoked after the unlink of
\* the second store's database, which came after the steps of use case 26.
C25_Witness ==
    /\ \E k \in 1..Len(calls) : calls[k].name = "uc27_store_path"
    /\ \E j \in 1..Len(fsops) :
          /\ fsops[j].path = "codex-uc27.sqlite"
          /\ fsops[j].ok
          /\ fsops[j].at >= 3
    /\ \E j \in 1..Len(fsops) : fsops[j].path = "codex-usecases.sqlite" /\ fsops[j].at = 0

---------------------------------------------------------------------------
\* The record of step k of the run has been written.
Recorded(k) == Path(calls[k].prefix, "meta.json") \in DOMAIN files

\* A process of the target is alive.
ProcessAlive == step.phase = "running"

\* The steps are in one order: every step but the last has its record, the one process
\* that may be alive is the last step's, and the steps started in the order invoked.
StepsInOrder ==
    /\ Len(calls) = nInvoked
    /\ \A k \in 1..(Len(calls) - 1) :
          /\ Recorded(k)
          /\ calls[k].started <= calls[k + 1].started
    /\ ProcessAlive =>
          /\ Len(calls) >= 1
          /\ step.prefix = calls[Len(calls)].prefix
          /\ ~Recorded(Len(calls))

\* C26: at most one process of the target is alive at any time: a step starts only
\* when no process is alive and the step before it has exited and has its record
\* written (a step killed by its timeout is followed by no step), so the steps of a
\* run are in one order and never interleave.
C26_OneStepAtATime ==
    [][/\ StepsInOrder'
       /\ nInvoked' # nInvoked =>
              /\ nInvoked' = nInvoked + 1
              /\ ~ProcessAlive
              /\ step.phase = "idle"
              /\ ProcessAlive'
              /\ Len(calls) >= 1 => Recorded(Len(calls))]_vars

\* The third step of a run is running: the two before it have their records and
\* started earlier.
C26_Witness ==
    /\ Len(calls) = 3
    /\ ProcessAlive
    /\ Recorded(1) /\ Recorded(2)
    /\ calls[2].started < calls[3].started

---------------------------------------------------------------------------
\* Piece i of the text is a JSON value alone on its line but for blanks.
AloneOnLine(text, i) ==
    /\ text[i] \in JsonPieces
    /\ \E a \in 1..i :
          /\ a = 1 \/ text[a - 1] = "\n"
          /\ \A j \in a..(i - 1) : text[j] = " "
    /\ \E b \in i..Len(text) :
          /\ b = Len(text) \/ text[b + 1] = "\n"
          /\ \A j \in (i + 1)..b : text[j] = " "

\* The main function has gone through the line check.
LinesChecked == pc.i = 1 \/ exc.kind # "none"

\* C27: the count of the line parser of use case 28 is the number of non-blank lines
\* of the output that parse as JSON: blank lines are skipped, lines that do not parse
\* are passed over, and StepFailed is raised if and only if the count is 0. For the
\* output {"a":1}, blank line, {"b":2} the count is 2.
C27_LineParserCount ==
    LinesChecked =>
        /\ locals.parsed_lines =
               Cardinality({i \in 1..Len(locals.out) : AloneOnLine(locals.out, i)})
        /\ exc.kind \in {"none", "StepFailed"}
        /\ exc.kind = "StepFailed" <=> locals.parsed_lines = 0
        /\ locals.out = <<"{\"a\":1}", "\n", "\n", "{\"b\":2}", "\n">> =>
               locals.parsed_lines = 2 /\ exc.kind = "none"

\* The output of the example was checked: two lines counted and nothing raised.
C27_Witness ==
    /\ pc.i = 1
    /\ locals.out = <<"{\"a\":1}", "\n", "\n", "{\"b\":2}", "\n">>
    /\ locals.parsed_lines = 2
    /\ exc.kind = "none"

---------------------------------------------------------------------------
\* Step k belongs to use case 27: uc27_store_path was invoked at or before it and
\* uc27_skills_list_post_reset, the last step of the use case, was not invoked before.
InUc27(k) ==
    /\ \E a \in 1..k : calls[a].name = "uc27_store_path"
    /\ \A j \in 1..(k - 1) : calls[j].name # "uc27_skills_list_post_reset"

\* The words run_step puts before the caller's args for a store.
IsolationFlags(store_name) == <<"think", "--store", store_name, "--workspace", "/ws">>

\* C28: every command run_step executes is the binary, '--store', the store of its
\* context, '--workspace', the workspace of its context, and then the caller's args
\* unchanged; every step of use case 27 carries store 'codex-uc27' and every other
\* step 'codex-usecases'; the two contexts differ in the store only and stay as built.
C28_CommandCarriesContextStore ==
    /\ \A k \in 1..Len(calls) :
          /\ calls[k].cmd =
                 IsolationFlags(IF InUc27(k) THEN "codex-uc27" ELSE "codex-usecases")
                     \o calls[k].args
          /\ calls[k].name = "uc27_store_path" =>
                 calls[k].cmd = <<"think", "--store", "codex-uc27", "--workspace", "/ws",
                                  "store", "path", "--format", "json">>
          /\ calls[k].name = "uc28_chat_send_json_lines" =>
                 calls[k].cmd = <<"think", "--store", "codex-usecases", "--workspace", "/ws",
                                  "chat", "send", "--session", "id-uc28-jsonlines",
                                  "--prompt", "Output two short paragraphs.",
                                  "--format", "json-lines">>
    /\ step.phase # "idle" =>
          /\ step.cmd = calls[Len(calls)].cmd
          /\ step.call.ctx.think_bin = "think"
          /\ step.call.ctx.workspace = "/ws"
          /\ step.call.ctx.store_name = calls[Len(calls)].cmd[3]
          /\ step.call.ctx.hf_token = calls[1].hf_token

\* A step of use case 27 and, after the use case, a step against the first store
\* again have been invoked.
C28_Witness ==
    /\ \E k \in 1..Len(calls) :
          calls[k].name = "uc27_skill_enable" /\ calls[k].cmd[3] = "codex-uc27"
    /\ \E k \in 1..Len(calls) :
          calls[k].name = "uc28_chat_send_json_lines" /\ calls[k].cmd[3] = "codex-usecases"

---------------------------------------------------------------------------
\* json.dumps of the arguments the callers of run_tool pass, by tool.
ToolJson(tool) ==
    CASE tool = "workspace" -> "{\"action\": \"list\", \"path\": \".\", \"recursive\": false}"
      [] tool = "python_exec" -> "{\"code\": \"print('py_ok')\", \"timeout\": 10}"
      [] tool = "memory" ->
             "{\"type\": \"shortTerm\", \"content\": \"UC29 tool smoke\", \"keywords\": [\"uc29\", \"smoke\"]}"
      [] OTHER -> ""

\* The run_step call that run_tool stands for, from the arguments the caller gave.
AsRunStep ==
    [ctx |-> MainCtx, name |-> "uc29_tool",
     args |-> <<"tools", "run", locals.tool, "--args", ToolJson(locals.tool),
                "--format", "json">>,
     json_output |-> TRUE, allow_fail |-> locals.allow_fail, timeout_s |-> locals.timeout_s]

\* What run_step makes of the finished process of that call.
AsRunStepOutcome == Classification([step EXCEPT !.call = AsRunStep])

\* C29: run_tool behaves as run_step with the arguments 'tools', 'run', the tool,
\* '--args', the JSON text of the tool arguments, '--format', 'json', with
\* json_output true and the caller's allow_fail and timeout_s: it returns the parsed
\* value of that call, raises exactly when that call raises, and raises nothing of
\* its own.
C29_RunToolIsRunStep ==
    /\ step.phase # "idle" =>
          /\ step.call = AsRunStep
          /\ step.eff = EffectiveTimeout(locals.timeout_s, AsRunStep.args, CHAT_TIMEOUT_S)
    /\ step.phase \in {"returned", "raised"} =>
          /\ AsRunStepOutcome.raised <=> step.phase = "raised"
          /\ AsRunStepOutcome.raised <=> exc.kind = "StepFailed"
          /\ step.phase = "returned" => exc.kind = "none" /\ result = AsRunStepOutcome.ret
    /\ pc.i = 2 =>
          /\ step.phase = "returned"
          /\ locals.obj = AsRunStepOutcome.ret.parsed
    /\ exc.kind \in {"none", "StepFailed", "TimeoutExpired"}
    /\ exc.kind = "TimeoutExpired" =>
          /\ step.phase = "killed"
          /\ Expires(EffectiveTimeout(locals.timeout_s, AsRunStep.args, CHAT_TIMEOUT_S),
                     step.dur)

\* run_tool was called with allow_fail for the memory tool, the process failed, and
\* run_tool returned the value run_step parsed from its output.
C29_Witness ==
    /\ pc.i = 2
    /\ locals.tool = "memory"
    /\ locals.allow_fail
    /\ Get(step.rc) # 0
    /\ locals.obj = "dict"
    /\ exc.kind = "none"

---------------------------------------------------------------------------
\* main looked for the token cache file.
TokenConsulted ==
    \E j \in 1..Len(fsops) : fsops[j].op = "exists" /\ fsops[j].path = TokenPath

\* HF_TOKEN of the process environment is set to a non-empty text.
HfTokenGiven == ~IsNone(env.hf_token) /\ Get(env.hf_token) # ""

\* The token cache file is absent, or empty.
TokenFileAbsentOrEmpty == IsNone(env.token_file) \/ Get(env.token_file) = ""

\* Every step invoked so far was given this value of HF_TOKEN.
EveryStepGiven(token) == \A k \in 1..Len(calls) : calls[k].hf_token = token

\* C30 as stated: a non-empty HF_TOKEN of the process environment is passed to every
\* step unchanged; the token cache file is consulted only when HF_TOKEN is unset or
\* empty, and an absent or empty cache file leaves HF_TOKEN unset.
C30_AbsentFileLeavesUnset ==
    pc.i >= 1 =>
        /\ HfTokenGiven => EveryStepGiven(env.hf_token)
        /\ TokenConsulted => ~HfTokenGiven
        /\ (~HfTokenGiven /\ TokenFileAbsentOrEmpty) => EveryStepGiven(None)

\* C30, amended: a non-empty HF_TOKEN of the process environment is passed to every
\* step unchanged; the token cache file is consulted exactly when HF_TOKEN is unset or
\* empty; a cache file that is absent, empty or blank leaves HF_TOKEN as the process
\* environment had it (unset, or set to the empty text), and any other cache file
\* gives every step its text without the white space around it.
C30_TokenResolution ==
    pc.i >= 1 =>
        /\ HfTokenGiven => EveryStepGiven(env.hf_token)
        /\ TokenConsulted <=> ~HfTokenGiven
        /\ (~HfTokenGiven /\ (TokenFileAbsentOrEmpty \/ env.token_file = Some(" \n"))) =>
               EveryStepGiven(env.hf_token)
        /\ (~HfTokenGiven /\ env.token_file = Some("hf_file\n")) =>
               EveryStepGiven(Some("hf_file"))

\* HF_TOKEN was set to the empty text and there was no cache file: the file was
\* looked for, and the steps were given the empty HF_TOKEN.
C30_Witness ==
    /\ env.hf_token = Some("")
    /\ IsNone(env.token_file)
    /\ TokenConsulted
    /\ Len(calls) >= 2
    /\ calls[2].hf_token = Some("")

---------------------------------------------------------------------------
\* The helper returns to its caller with an id taken from the listing.
ReturnsListedId == TakesListResponse /\ pc'.i = pc.i + 1

\* The id in the listing of the entity that the helper's create step made: the store
\* held an entity of the same name before, and the new one is listed after it.
IdOfCreated == LastByName(Listing(result.parsed, HelperOp.title), HelperOp.title)

\* C31: the id returned by create_skill / create_personality identifies the entity
\* created by that very call, also when resolution goes through the list-by-name
\* fallback and the store already contains another entity with the same name.
C31_ReturnsIdOfCreatedEntity ==
    [][ReturnsListedId => Some(locals'[HelperOp.var]) = IdOfCreated]_vars

---------------------------------------------------------------------------
\* The stdout texts that are JSON, and the value each parses to.
ParsesAsJson(text) == text.body \in {"dict_id", "dict", "null"}

ValueOfJson(text) == IF text.body = "null" THEN "None" ELSE text.body

\* C32: run_step with allow_fail=false returns normally only if the process exit code
\* is 0 and, when json_output=true, stdout parsed as JSON, the parsed value being the
\* one returned; with json_output=false the returned parsed value is always None.
C32_StrictReturnMeansSuccess ==
    step.phase = "returned" =>
        /\ ~step.call.allow_fail =>
               /\ step.rc = Some(0)
               /\ result.rc = Some(0)
               /\ step.call.json_output =>
                      /\ ParsesAsJson(step.stdout)
                      /\ result.parsed = ValueOfJson(step.stdout)
        /\ ~step.call.json_output => result.parsed = "None"
        /\ result.stdout = step.stdout /\ result.stderr = step.stderr

\* A strict JSON step returned: the process exited 0 and printed an object, which is
\* the parsed value returned.
C32_Witness ==
    /\ step.phase = "returned"
    /\ ~step.call.allow_fail
    /\ step.call.json_output
    /\ step.rc = Some(0)
    /\ step.stdout = TextDictId
    /\ result.parsed = "dict_id"

---------------------------------------------------------------------------
\* A scenario step issued with allow_fail=true (the acquisition steps of the candidate
\* selector, whose result the selector reads, are not scenario steps).
IsTolerated(c) == c.allow_fail /\ ~IsDownload(c)

\* run_step classifies the finished process of a tolerated step.
ClassifiesTolerated == step.phase = "logged" /\ IsTolerated(step.call)

\* The caller takes up the result of a tolerated step.
TakesToleratedResult ==
    /\ step.phase = "returned"
    /\ IsTolerated(step.call)
    /\ step'.phase = "idle"

\* C33: for a scenario step issued with allow_fail=true that does not time out, what
\* follows does not depend on its exit code or on what it printed: run_step returns
\* whatever the outcome, the caller goes on to the next operation with its variables
\* as they were, and every step is the call that the caller's position and variables
\* determine; so the later steps, their order and the exit code of the run are the
\* same for every outcome of the tolerated step.
C33_ToleratedOutcomeIgnored ==
    /\ [][ClassifiesTolerated => step'.phase = "returned" /\ exc' = exc]_vars
    /\ [][TakesToleratedResult =>
            /\ pc' = [i |-> pc.i + 1, sub |-> 0]
            /\ locals' = locals
            /\ exc' = exc
            /\ run' = run
            /\ calls' = calls]_vars
    /\ []((step.phase # "idle" /\ pc.i \in 1..Len(OutlineScript)) =>
            step.call = OpCall(OutlineOp, pc.sub))

\* The store reset of use case 27 failed and printed no JSON, the weather tool failed
\* as well, and the run went on through its last step to exit code 0.
C33_Witness ==
    /\ run.status = "exited"
    /\ run.exit_code = Some(0)
    /\ \E k \in 1..Len(calls) :
          /\ calls[k].name = "uc27_store_reset"
          /\ files[Path(calls[k].prefix, "meta.json")].exit_code # 0
    /\ \E k \in 1..Len(calls) :
          /\ calls[k].name = "uc29_weather_smoke"
          /\ files[Path(calls[k].prefix, "meta.json")].exit_code # 0
    /\ calls[Len(calls)].name = "status_final"

---------------------------------------------------------------------------
\* The explicit chat delete of use case 20, and the personalities line 931 deletes.
IsChatDelete(c) == Len(c.args) = 4 /\ c.args[1] = "chat" /\ c.args[2] = "delete"

DeletedPersonalities == 2..Uc20Personalities

\* The chats that go with a deleted personality.
CascadedChats == {ChatIdOf(j) : j \in DeletedPersonalities}

\* C34: in use case 20 the chat that is deleted explicitly belongs to the first
\* personality, the only one not deleted afterwards, so no chat is the target of both
\* the explicit chat delete and a cascading personality delete, whichever of the chat
\* ids could be read out of the responses.
C34_ExplicitDeleteIsFirstPersonalitysChat ==
    \A k \in 1..Len(calls) :
        IsChatDelete(calls[k]) =>
            /\ calls[k].args[4] = ChatIdOf(1)
            /\ calls[k].args[4] \notin CascadedChats


---------------------------------------------------------------------------
\* The order main keeps before the first conversation: what has to be behind the
\* run when a chat-send step is spawned.
Prerequisites == {"doctor_pre", "status_pre", "models_list_pre", "onboard"}

\* Step number j of the run has been logged with exit code 0.
SucceededAt(j) ==
    /\ Recorded(j)
    /\ files[Path(calls[j].prefix, "meta.json")].exit_code = 0

\* What a selection over cands hands back, read off the run: the first candidate
\* present locally, else the candidate of the last acquisition step issued.
SelectionReturned(cands) ==
    IF LocalOf(cands) # {}
    THEN cands[CHOOSE k \in LocalOf(cands) : \A j \in LocalOf(cands) : k <= j].repo
    ELSE cands[Len(DownloadsOf(cands))].repo

SelectionDone(e) ==
    /\ locals[e.var] # ""
    /\ LocalOf(e.candidates) = {} =>
          /\ DownloadsOf(e.candidates) # <<>>
          /\ \E j \in 1..Len(calls) :
                /\ calls[j].args[3] = locals[e.var]
                /\ IsDownload(calls[j])
                /\ Recorded(j)

\* C35: no chat-send step is invoked before the store reset, the preflight steps, the
\* language- and diffusion-model selection and the onboard step have all completed
\* successfully, and the onboard step receives exactly the language model id that
\* the selection returned.
C35_ChatSendAfterSetup ==
    /\ \A k \in 1..Len(calls) : IsChatSend(calls[k].args) =>
          /\ fsops # <<>>
          /\ \A f \in 1..Len(fsops) : fsops[f].at = 0
          /\ exc.diag.kind # "reset_failed"
          /\ \A n \in Prerequisites :
                \E j \in 1..(k - 1) : calls[j].name = n /\ SucceededAt(j)
          /\ \A e \in Selections : SelectionDone(e)
          /\ \A j \in 1..(k - 1) : IsDownload(calls[j]) =>
                \E o \in 1..(k - 1) : o > j /\ calls[o].name = "onboard"
    /\ \A j \in 1..Len(calls) : calls[j].name = "onboard" =>
          /\ calls[j].args[5] = "--model"
          /\ calls[j].args[6] = SelectionReturned(LanguageCandidates)
          /\ calls[j].args[6] = locals["$lang_repo"]

\* A conversation was started after the language model had to be acquired, the
\* second candidate being the one accepted.
C35_Witness ==
    /\ \E k \in 1..Len(calls) : IsChatSend(calls[k].args)
    /\ Len(DownloadsOf(LanguageCandidates)) = 2
    /\ \E j \in 1..Len(calls) :
          calls[j].name = "onboard" /\ calls[j].args[6] = LanguageCandidates[2].repo

---------------------------------------------------------------------------
\* scripts/generate_personality_images.py, fal_generate_png_bytes (lines 216-260) on
\* its own: one call, the service answering each request in any of the ways below.
\* pc.i is the loop variable attempt; locals holds last_err, where the attempt
\* stands, what the attempt has in hand, every exception raised inside the try
\* (errs), every time.sleep made (sleeps) and every request sent (requests).
FalAttempts == 3

\* What urlopen + json.loads of the generation request can give: an exception, or
\* a payload. A payload is told by its "images" member.
FalPostErrors == {"URLError", "HTTPError", "JSONDecodeError"}

FalPayloads ==
    {"not_a_dict", "no_images_key", "images_null", "images_empty", "images_dict",
     "first_is_string", "first_without_url", "first_with_url"}

FalFetchErrors == {"URLError", "HTTPError"}

FalBytes == {"", "png-a", "png-b"}

\* Lines 240-246: what the checks of the payload raise, or None when they pass.
FalPayloadError(payload) ==
    IF payload = "not_a_dict" THEN Some("AttributeError")
    ELSE IF payload \in {"no_images_key", "images_null", "images_empty", "images_dict"}
    THEN Some("RuntimeError(no images)")
    ELSE IF payload \in {"first_is_string", "first_without_url"}
    THEN Some("RuntimeError(image schema)")
    ELSE None

\* Backoff as it would be if every retry waited the same time.
BackoffConstant(attempt) == 2

\* backoff = 2**attempt, line 254.
Backoff(attempt) == 2 ^ attempt

FalLocals(at, hand) == [locals EXCEPT !.at = at, !.hand = hand]

FalRunning == run.status = "running" /\ exc.kind = "none" /\ pc.i \in 1..FalAttempts

\* Lines 219-238: the generation request is sent and its answer read.
FalPost ==
    /\ FalRunning
    /\ locals.at = "try"
    /\ \/ \E e \in FalPostErrors :
             locals' = [locals EXCEPT !.at = "except", !.hand = e,
                           !.errs = Append(@, e),
                           !.requests = Append(@, [attempt |-> pc.i, to |-> "generate"])]
       \/ \E p \in FalPayloads :
             locals' = [locals EXCEPT !.at = "payload", !.hand = p,
                           !.requests = Append(@, [attempt |-> pc.i, to |-> "generate"])]
    /\ UNCHANGED <<env, disk, fsops, now, files, step, result, exc, run, nInvoked, calls, pc>>

\* Lines 240-248: the payload is checked and the url of the first image taken.
FalPick ==
    /\ FalRunning
    /\ locals.at = "payload"
    /\ LET err == FalPayloadError(locals.hand)
       IN  IF IsNone(err)
           THEN locals' = FalLocals("image_url", "https://fal.media/files/image.png")
           ELSE locals' = [locals EXCEPT !.at = "except", !.hand = Get(err),
                              !.errs = Append(@, Get(err))]
    /\ UNCHANGED <<env, disk, fsops, now, files, step, result, exc, run, nInvoked, calls, pc>>

\* Lines 249-250: the image is fetched and its bytes returned.
FalFetch ==
    /\ FalRunning
    /\ locals.at = "image_url"
    /\ \/ \E e \in FalFetchErrors :
             locals' = [locals EXCEPT !.at = "except", !.hand = "fetch " \o e,
                           !.errs = Append(@, "fetch " \o e),
                           !.requests = Append(@, [attempt |-> pc.i, to |-> "image"])]
       \/ \E b \in FalBytes :
             locals' = [locals EXCEPT !.at = "returned", !.hand = "",
                           !.returned = Some(b),
                           !.requests = Append(@, [attempt |-> pc.i, to |-> "image"])]
    /\ UNCHANGED <<env, disk, fsops, now, files, step, result, exc, run, nInvoked, calls, pc>>

\* Lines 251-258: the handler keeps the exception, and says so on stderr, sleeps
\* and goes round again unless this was the last attempt.
FalExcept ==
    /\ FalRunning
    /\ locals.at = "except"
    /\ IF pc.i < 3
       THEN /\ locals' = [locals EXCEPT !.at = "try", !.hand = "",
                             !.last_err = Some(locals.hand),
                             !.sleeps = Append(@, [after |-> pc.i, secs |-> Backoff(pc.i)])]
            /\ run' = [run EXCEPT !.stderr =
                          Append(@, [attempt |-> pc.i, retrying_in |-> Backoff(pc.i)])]
            /\ now' = now + Backoff(pc.i)
            /\ pc' = [pc EXCEPT !.i = pc.i + 1]
       ELSE /\ locals' = [locals EXCEPT !.at = "after_loop", !.hand = "",
                             !.last_err = Some(locals.hand)]
            /\ UNCHANGED <<now, pc, run>>
    /\ UNCHANGED <<env, disk, fsops, files, step, result, exc, nInvoked, calls>>

\* Line 260, reached by the break of the third attempt.
FalRaise ==
    /\ run.status = "running"
    /\ exc.kind = "none"
    /\ locals.at = "after_loop"
    /\ exc' = [kind |-> "RuntimeError",
               diag |-> [NoDiag EXCEPT !.kind = "fal_failed_after_retries"],
               cause |-> locals.last_err]
    /\ UNCHANGED <<env, disk, fsops, now, files, step, result, run, nInvoked, calls, pc,
                   locals>>

InitFal ==
    /\ env = [chat_timeout |-> None, think_bin_exists |-> TRUE, local_models |-> {},
              stale_schedule |-> FALSE, hf_token |-> None, token_file |-> None]
    /\ now = 0
    /\ files = [p \in {} |-> StreamFile(FALSE)]
    /\ step = IdleStep
    /\ result = NoResult
    /\ exc = NoExc
    /\ run = [status |-> "running", exit_code |-> None, stdout |-> <<>>, stderr |-> <<>>]
    /\ nInvoked = 0
    /\ calls = <<>>
    /\ disk = DiskOf(env)
    /\ fsops = <<>>
    /\ pc = [i |-> 1, sub |-> 0]
    /\ locals = [at |-> "try", hand |-> "", last_err |-> None, returned |-> None,
                 errs |-> <<>>, sleeps |-> <<>>, requests |-> <<>>]

NextFal ==
    \/ FalPost
    \/ FalPick
    \/ FalFetch
    \/ FalExcept
    \/ FalRaise

SpecFal == InitFal /\ [][NextFal]_vars

\* The attempts begun so far, and those of them that failed and were handled.
FalAttemptsMade == {r.attempt : r \in {locals.requests[k] : k \in 1..Len(locals.requests)}}

FalHandled == Len(locals.errs) - (IF locals.at = "except" THEN 1 ELSE 0)

FalReturns == locals.at = "image_url" /\ locals'.at = "returned"

\* C36: fal_generate_png_bytes makes at most three attempts, returns the bytes of the
\* first successful attempt without any further attempt, sleeps 2 s after the first
\* failure and 4 s after the second and not after the third, and raises RuntimeError
\* carrying the last error when all three attempts fail.
C36_ThreeAttemptsWithBackoff ==
    /\ [](/\ FalAttemptsMade \subseteq 1..3
          /\ Len(locals.errs) <= 3
          /\ Cardinality({k \in 1..Len(locals.requests) :
                             locals.requests[k].to = "generate"}) <= 3
          /\ locals.sleeps = [k \in 1..Min(FalHandled, 2) |->
                                 [after |-> k, secs |-> IF k = 1 THEN 2 ELSE 4]]
          /\ now = (IF FalHandled >= 1 THEN 2 ELSE 0) + (IF FalHandled >= 2 THEN 4 ELSE 0)
          /\ ~IsNone(locals.returned) =>
                /\ exc.kind = "none"
                /\ Len(locals.errs) = pc.i - 1
                /\ locals.requests[Len(locals.requests)] = [attempt |-> pc.i, to |-> "image"]
                /\ ~ENABLED NextFal
          /\ (exc.kind # "none" \/ locals.at = "after_loop") <=> FalHandled = 3
          /\ exc.kind # "none" =>
                /\ exc.kind = "RuntimeError"
                /\ exc.cause = Some(locals.errs[3])
                /\ IsNone(locals.returned))
    /\ [][FalReturns =>
            /\ \E b \in FalBytes : locals'.returned = Some(b)
            /\ locals'.requests = Append(locals.requests, [attempt |-> pc.i, to |-> "image"])
            /\ locals'.sleeps = locals.sleeps
            /\ now' = now]_vars

\* The third attempt gave the image after two failures of different kinds.
C36_Witness ==
    /\ locals.returned = Some("png-b")
    /\ pc.i = 3
    /\ Len(locals.errs) = 2
    /\ locals.errs[1] # locals.errs[2]
    /\ now = 6

\* All three attempts failed, the last one on the image request.
C36_WitnessRaised ==
    /\ exc.kind = "RuntimeError"
    /\ exc.cause = Some("fetch URLError")
    /\ Len(locals.sleeps) = 2

---------------------------------------------------------------------------
\* scripts/generate_jwt.py, generate_jwt_token (lines 57-93) on its own: one call,
\* with any reading of the system clock, any answer of the time service and any
\* duration. pc.i is 0 before the key is loaded, 1 once it is, 2 once the timestamp
\* is taken, 3 when the function has returned.
Jan2025 == 1735689600

KnownGoodTimestamp == 1733097600

DefaultDuration == 1200

\* time.time() is a float: whole seconds and tenths.
SystemClocks ==
    [whole : {KnownGoodTimestamp, Jan2025 - 1, Jan2025, Jan2025 + 1, 1762000000},
     tenths : {0, 5}]

\* What the time service sends as "unixtime".
UnixtimeValues ==
    {[t |-> "int", whole |-> 1762214400, tenths |-> 0],
     [t |-> "int", whole |-> 1700000000, tenths |-> 0],
     [t |-> "float", whole |-> 1762214400, tenths |-> 7],
     [t |-> "str", whole |-> 1762214400, tenths |-> 0],
     [t |-> "str_not_a_number", whole |-> 0, tenths |-> 0],
     [t |-> "null", whole |-> 0, tenths |-> 0]}

\* What urlopen + json.loads of the time request gives: an exception of urlopen, a
\* body that is not JSON, an object without the member, or an object with it.
TimeServices ==
    {[reply |-> r, unixtime |-> None] : r \in {"unreachable", "not_json", "no_unixtime"}}
        \cup {[reply |-> "object", unixtime |-> Some(v)] : v \in UnixtimeValues}

Durations == {-60, 0, 1, DefaultDuration}

\* int(x): an int is itself, a float loses its fraction, a string of digits is read;
\* anything else raises, which is None here.
IntOf(v) ==
    IF v.t \in {"int", "float", "str"} THEN Some(v.whole) ELSE None

\* get_current_timestamp as it would be if the threshold itself were mistrusted.
GetCurrentTimestampAtThreshold(clock, service) ==
    LET system_time == clock.whole
    IN  IF system_time >= Jan2025
        THEN IF service.reply = "object" /\ ~IsNone(IntOf(Get(service.unixtime)))
             THEN Get(IntOf(Get(service.unixtime)))
             ELSE KnownGoodTimestamp
        ELSE system_time

\* get_current_timestamp, lines 40-55; the bare except takes every failure of the
\* request, of the parsing and of the conversion to the fixed timestamp.
GetCurrentTimestamp(clock, service) ==
    LET system_time == clock.whole
    IN  IF system_time > Jan2025
        THEN IF service.reply = "object" /\ ~IsNone(IntOf(Get(service.unixtime)))
             THEN Get(IntOf(Get(service.unixtime)))
             ELSE KnownGoodTimestamp
        ELSE system_time

\* Lines 60-63: the key is loaded; without it the function returns None.
JwtLoadKey ==
    /\ pc.i = 0
    /\ IF locals.key_loads
       THEN /\ pc' = [pc EXCEPT !.i = 1]
            /\ UNCHANGED locals
       ELSE /\ pc' = [pc EXCEPT !.i = 3]
            /\ locals' = [locals EXCEPT !.returned = "None"]
    /\ UNCHANGED <<env, disk, fsops, now, files, step, result, exc, run, nInvoked, calls>>

\* Line 73: now = get_current_timestamp().
JwtTakeTimestamp ==
    /\ pc.i = 1
    /\ locals' = [locals EXCEPT
                     !.now = Some(GetCurrentTimestamp(locals.clock, locals.service)),
                     !.asked = locals.clock.whole > Jan2025]
    /\ pc' = [pc EXCEPT !.i = 2]
    /\ UNCHANGED <<env, disk, fsops, now, files, step, result, exc, run, nInvoked, calls>>

\* Lines 74-93: the payload is built, encoded and signed, and the token returned.
JwtSign ==
    /\ pc.i = 2
    /\ locals' = [locals EXCEPT
                     !.payload = Some([iss |-> "issuer", iat |-> Get(locals.now),
                                       exp |-> Get(locals.now) + locals.duration,
                                       aud |-> "appstoreconnect-v1"]),
                     !.returned = "token"]
    /\ pc' = [pc EXCEPT !.i = 3]
    /\ UNCHANGED <<env, disk, fsops, now, files, step, result, exc, run, nInvoked, calls>>

InitJwt ==
    /\ env = [chat_timeout |-> None, think_bin_exists |-> TRUE, local_models |-> {},
              stale_schedule |-> FALSE, hf_token |-> None, token_file |-> None]
    /\ now = 0
    /\ files = [p \in {} |-> StreamFile(FALSE)]
    /\ step = IdleStep
    /\ result = NoResult
    /\ exc = NoExc
    /\ run = [status |-> "running", exit_code |-> None, stdout |-> <<>>, stderr |-> <<>>]
    /\ nInvoked = 0
    /\ calls = <<>>
    /\ disk = DiskOf(env)
    /\ fsops = <<>>
    /\ pc = [i |-> 0, sub |-> 0]
    /\ \E c \in SystemClocks, s \in TimeServices, d \in Durations, k \in BOOLEAN :
          locals = [clock |-> c, service |-> s, duration |-> d, key_loads |-> k,
                    now |-> None, asked |-> FALSE, payload |-> None, returned |-> ""]

NextJwt ==
    \/ JwtLoadKey
    \/ JwtTakeTimestamp
    \/ JwtSign

SpecJwt == InitJwt /\ [][NextJwt]_vars

====
